---------------------------- MODULE Spec2Model ----------------------------
(***************************************************************************)
(* A model of the threadsafe library (CarloWood/threadsafe).               *)
(*                                                                         *)
(* Part 1: AIReadWriteSpinLock (AIReadWriteSpinLock.h): the 64-bit packed  *)
(*         read/write spin lock with its two condition variables.          *)
(* Part 2: AIReadWriteMutex: the condition-variable based read/write mutex.*)
(* Part 3: the access tokens of threadsafe.h under the ReadWrite policy.   *)
(* Part 4: the object tracker (ObjectTracker.h, TrackedObject.h).          *)
(* Part 5: MpscQueue, the intrusive multi-producer single-consumer queue.  *)
(*                                                                         *)
(* Every thread is a small state machine: pc[t] is the place in the code   *)
(* the thread is at.  One action is one atomic step of the code: one       *)
(* atomic read-modify-write of m_state, one acquisition of a std::mutex,   *)
(* one evaluation of a wait predicate (which runs with the mutex held),    *)
(* one notify call.                                                        *)
(***************************************************************************)
EXTENDS Integers, Naturals, Sequences, FiniteSets, TLC

\* Number of threads.
NThreads == 3

\* Number of iterations of the outer loop of run() in the stress test.
MaxIter == 1

\* Number of locks a thread takes in the program "ops".
MaxOps == 1

\* Number of calls of insert in the program "insert": the first thread
\* makes MaxInsert calls, which take the slots the storage is constructed
\* with, and every other thread one.
MaxInsert == 2
InsertCalls(t) == IF t = 1 THEN MaxInsert ELSE 1

Threads == 1..NThreads
NoThread == 0

VARIABLES
  \* ---- the threads
  lock,                 \* the class of the lock under use: "SL" or "RW"
  prog,                 \* the program the threads run: "api", "ops", "run",
                        \* "convert", "tokens", "tracker" or "queue"
  phase,                \* where each thread is in its program
  iter,                 \* the iterations each thread has completed
  pc,                   \* where each thread is in the code of the lock
  hold,                 \* the lock each thread holds according to the API
  res,                  \* the outcome of each thread's latest rd2wrlock
  \* ---- AIReadWriteSpinLock
  m_state,              \* std::atomic<int64_t> m_state
  m_readers_cv_mutex,   \* owner of m_readers_cv_mutex, or NoThread
  m_writers_cv_mutex,   \* owner of m_writers_cv_mutex, or NoThread
  state,                \* each thread's local `state' / `previous_state'
  increment,            \* the template argument of the running do_transition
  ret,                  \* where the running do_transition returns to
  locked,               \* each thread's local `read_locked' / `write_locked'
  \* ---- AIReadWriteMutex
  m_state_mutex,        \* owner of m_state_mutex, or NoThread
  m_readers_count,      \* number of readers, or -1 if a writer has the lock
  m_waiting_writers,    \* number of threads waiting for a write lock
  m_rd2wr_count,        \* number of threads converting read to write
  waiting_writer,       \* each thread's local `waiting_writer'
  \* ---- the stress test
  count,                \* long volatile count[9]
  write_access,         \* std::atomic<int> write_access
  read_access,          \* std::atomic<int> read_access
  \* ---- the access tokens
  tokens,               \* each thread's access objects, innermost last
  \* ---- the object tracker
  object,               \* the state of the tracked objects node and node2
  tracker_,             \* whether std::shared_ptr<Tracker> tracker_ of each
                        \* object is non-null
  s_,                   \* std::string s_ of each object
  data_mutex,           \* the policy mutex of each object
  tracker_mutex,        \* the mutex of tracked_unlocked_ptr_
  tracked_unlocked_ptr_, \* m_base and m_read_write_mutex_ptr of the tracker
  node_r,               \* each thread's access object from the tracker
  \* ---- MpscQueue
  m_head,               \* std::atomic<MpscNode*> m_head
  m_tail,               \* MpscNode* m_tail
  m_next,               \* std::atomic<MpscNode*> m_next of every node
  node,                 \* each thread's argument `node' of push
  prev,                 \* each thread's local `prev' of push
  tail,                 \* the consumer's local `tail' of pop
  next,                 \* the consumer's local `next' of pop
  popped,               \* the nodes that pop has returned, in order
  pop_saw,              \* what the state of the queue has been during the
                        \* running call of pop
  \* ---- Semaphore
  m_word,               \* std::atomic<uint64_t> m_word of the Futex
  word,                 \* each thread's local `word' of wait and try_wait
  post_n,               \* each thread's argument `n' of post
  account,              \* history: the tokens the constructor was given,
                        \* the tokens posted and the tokens taken by wait
                        \* and by try_wait
  \* ---- AIMutex
  m_mutex,              \* std::mutex m_mutex: the thread that has locked it
  m_id,                 \* std::atomic<std::thread::id> m_id
  \* ---- PointerStorage
  m_rwlock,             \* AIReadWriteSpinLock m_rwlock: the writer, the
                        \* converting thread and the readers
  m_size,               \* index_type m_size
  m_storage,            \* std::vector<void*> m_storage
  m_free_indices,       \* boost::lockfree::stack<index_type>, top first
  index,                \* each thread's local `index' of insert
  value,                \* each thread's argument `value' of insert
  pos,                  \* each thread's argument `pos' of erase
  free_indices,         \* each thread's local `free_indices' of for_each
  called,               \* the pointers that the running for_each of each
                        \* thread has passed to its callback, in order
  owned                 \* the entries (index and pointer) each thread has
                        \* inserted and not erased

thrVars == <<pc, hold, res>>
progVars == <<lock, prog, phase, iter>>
slVars == <<m_state, m_readers_cv_mutex, m_writers_cv_mutex, state,
            increment, ret, locked>>
rwVars == <<m_state_mutex, m_readers_count, m_waiting_writers, m_rd2wr_count,
            waiting_writer>>
testVars == <<count, write_access, read_access>>
tokVars == <<tokens>>
trkVars == <<object, tracker_, s_, data_mutex, tracker_mutex,
             tracked_unlocked_ptr_, node_r>>
mqVars == <<m_head, m_tail, m_next, node, prev, tail, next, popped, pop_saw>>

semVars == <<m_word, word, post_n, account>>
amVars == <<m_mutex, m_id>>
psVars == <<m_rwlock, m_size, m_storage, m_free_indices, index, value, pos,
            free_indices, called, owned>>
utilVars == <<semVars, amVars, psVars>>

vars == <<progVars, thrVars, slVars, rwVars, testVars, tokVars, trkVars,
          mqVars, utilVars>>

\* What a step inside the code of the spin lock leaves alone, and what a
\* call of one of its member functions leaves alone.
slFrame == <<progVars, rwVars, testVars, tokVars, trkVars, mqVars,
   utilVars>>
slCallFrame == <<lock, prog, rwVars, testVars, tokVars, trkVars, mqVars,
   utilVars>>

-----------------------------------------------------------------------------
(***************************************************************************)
(* The programs of the threads.                                            *)
(*                                                                         *)
(* prog = "api": every thread makes any sequence of calls that obeys the   *)
(* API of the lock.  A thread that holds no lock calls rdlock, wrlock or   *)
(* rd2wryield; a thread that holds a read lock calls rdunlock or rd2wrlock *)
(* (after DeadlockAvoided it has to call rdunlock); a thread that holds    *)
(* the write lock calls wrunlock or wr2rdlock.                             *)
(*                                                                         *)
(* prog = "ops": as "api", but a thread calls rdlock and wrlock at most     *)
(* MaxOps times in all; iter[t] counts its calls.                          *)
(*                                                                         *)
(* prog = "run": every thread executes run() of the stress test,           *)
(*   for (i = 0; i < n; ++i) {                                             *)
(*     m.wrlock(); add(1); m.wrunlock();                                   *)
(*     for (;;) {                                                          *)
(*       m.rdlock(); read(thr);                                            *)
(*       try { m.rd2wrlock(); }                                            *)
(*       catch (std::exception const&)                                     *)
(*         { m.rdunlock(); m.rd2wryield(); continue; }                     *)
(*       add(-1, thr); m.wrunlock(); break;                                *)
(*     }                                                                   *)
(*   }                                                                     *)
(* and phase[t] is the statement thread t executes next.                   *)
(*                                                                         *)
(* prog = "convert": every thread executes the inner loop of run() only:   *)
(* the threads take read locks and all of them try to convert.             *)
(*                                                                         *)
(* prog = "tokens": every thread constructs and destructs access objects   *)
(* (rat, wat, w2rCarry); phase[t] is "scope" between two of these, the     *)
(* name of the member function of the mutex that a constructor or a        *)
(* destructor is about to call, or "ctor_end" / "rd2wrlock_end" when the   *)
(* call of a constructor has returned.                                     *)
(***************************************************************************)
Permits(t, op) ==
  CASE prog = "api" -> TRUE
    [] prog = "ops" -> op \in {"rdlock", "wrlock"} => iter[t] < MaxOps
    [] prog = "tokens" -> phase[t] = op
    [] phase[t] = "wrlock1" -> op = "wrlock"
    [] phase[t] = "wrunlock1" -> op = "wrunlock"
    [] phase[t] = "rdlock" -> op = "rdlock"
    [] phase[t] = "rd2wrlock" -> op = "rd2wrlock"
    [] phase[t] = "try" -> op = "rdunlock" /\ res[t] = "DeadlockAvoided"
    [] phase[t] = "yield" -> op = "rd2wryield"
    [] phase[t] = "wrunlock2" -> op = "wrunlock"
    [] phase[t] = "ins_try" -> op = "rdunlock" /\ res[t] = "DeadlockAvoided"
    [] phase[t] = "wr2rdlock" -> op = "wr2rdlock"
    [] phase[t] = "ins_rdunlock" -> op = "rdunlock"
    [] OTHER -> FALSE

\* The statement that follows the call of op.
AfterCall(t, op) ==
  CASE prog = "insert" ->
         IF op = "rdlock" THEN "ins_pop"
         ELSE IF op = "rd2wrlock" THEN "ins_try"
         ELSE IF op = "rdunlock" /\ phase[t] = "ins_try" THEN "yield"
         ELSE IF op = "rd2wryield" THEN "rdlock"
         ELSE IF op = "wr2rdlock" THEN "ins_pop"
         ELSE IF iter[t] + 1 >= InsertCalls(t) THEN "done"
         ELSE "rdlock"
    [] prog = "tokens" ->
         IF op = "rd2wrlock" THEN "rd2wrlock_end"
         ELSE IF op \in {"rdlock", "wrlock"} THEN "ctor_end"
         ELSE "scope"
    [] op = "wrlock" -> "add1"
    [] op = "wrunlock" /\ phase[t] = "wrunlock1" -> "rdlock"
    [] op = "rdlock" -> "read"
    [] op = "rd2wrlock" -> "try"
    [] op = "rdunlock" -> "yield"
    [] op = "rd2wryield" -> "rdlock"
    [] op = "wrunlock" /\ phase[t] = "wrunlock2" ->
         IF iter[t] + 1 >= MaxIter THEN "done"
         ELSE IF prog = "run" THEN "wrlock1" ELSE "rdlock"
    [] OTHER -> phase[t]

Advance(t, op) ==
  CASE prog = "api" -> UNCHANGED <<phase, iter>>
    [] prog = "ops" ->
         /\ iter' = IF op \in {"rdlock", "wrlock"}
                      THEN [iter EXCEPT ![t] = @ + 1]
                      ELSE iter
         /\ UNCHANGED phase
    [] OTHER ->
         /\ phase' = [phase EXCEPT ![t] = AfterCall(t, op)]
         /\ iter' = IF phase[t] \in {"wrunlock2", "ins_rdunlock"}
                      THEN [iter EXCEPT ![t] = @ + 1]
                      ELSE iter

-----------------------------------------------------------------------------
(***************************************************************************)
(* AIReadWriteSpinLock: the packed word.                                   *)
(*                                                                         *)
(* The source packs four 16-bit counters in an int64_t.  The model keeps   *)
(* the packed word and all the arithmetic on it, with narrower fields so   *)
(* that the word fits the integers of the model checker.  The masks are    *)
(* computed arithmetically: x & R_mask is x % w, x >> shift is x \div w    *)
(* (both round towards minus infinity, as two's complement does).          *)
(***************************************************************************)
shift == 6

RECURSIVE Pow2(_)
Pow2(n) == IF n = 0 THEN 1 ELSE 2 * Pow2(n - 1)

\* The units of each counter.
r == 1
w == r * Pow2(shift)
c == w * Pow2(shift)
v == c * Pow2(shift)

sign_bit_r == r * Pow2(shift - 1)
sign_bit_w == w * Pow2(shift - 1)
sign_bit_c == c * Pow2(shift - 1)

\* x & R_mask, x & W_mask, x & C_mask, x & V_mask (the bits stay in place).
AndR(x) == x % w
AndW(x) == ((x \div w) % Pow2(shift)) * w
AndC(x) == ((x \div c) % Pow2(shift)) * c
AndV(x) == x - (x % v)

\* get_counters: the four counters <<V, C, W, R>> of a state, each field read
\* as a signed number.
Signed(f) == IF f >= Pow2(shift - 1) THEN f - Pow2(shift) ELSE f

get_counters(s) ==
  <<s \div v, Signed((s \div c) % Pow2(shift)), Signed((s \div w) % Pow2(shift)),
    Signed(s % Pow2(shift))>>

\* Faulty: a converting writer is not counted in V.
one_rd2wrlock_uncounted == c

\* Faulty: a waiting writer is not counted in V.
one_waiting_writer_uncounted == v - v

\* Faulty: the conversion gives back a unit of V when it succeeds.
successful_rd2wrlock_gives_V == v - c - r + w

\* Faulty: a failed wrlock leaves its unit of W in the word.
failed_wrlock_keeps_W == v - v

\* Possible transitions.
one_rdlock == r
one_wrlock == (-v) + w
one_rd2wrlock == (-v) + c
one_waiting_writer == -v

\* Follow up transitions.
failed_rdlock == -one_rdlock
failed_wrlock == (-one_wrlock) + one_waiting_writer
successful_rd2wrlock == (-one_rd2wrlock) - one_rdlock + one_wrlock
finalize_wrlock == -failed_wrlock

\* Faulty: the unit of V that wrlock took is not given back.
one_wrunlock_keeps_V == -w

\* Faulty: the write lock is given up without counting the caller as a reader.
one_wr2rdlock_no_reader == -one_wrlock

\* Transitions that can't fail.
one_rdunlock == -one_rdlock
one_wrunlock == -one_wrlock
one_wr2rdlock == one_wrunlock + one_rdlock

\* The predicates on the packed word.  Each faulty variant below is a slip
\* the properties at the end of the module have to detect.

\* Faulty: only an actual writer counts, a waiting writer does not.
writer_present_only_actual(s) == AndW(s) # 0

writer_present(s) == s < 0

\* Faulty: the readers are forgotten.
reader_or_writer_present_no_readers(s) == s < 0

reader_or_writer_present(s) == s # 0
reader_present(s) == AndR(s) # 0
converting_or_actual_writer_present(s) == (AndC(s) + AndW(s)) # 0
reader_or_converting_or_actual_writer_present(s) == (AndR(s) + AndC(s) + AndW(s)) # 0

\* Faulty: a second converting writer is not seen.
converting_writer_present_never(s) == AndC(s) >= 2 * c

\* Faulty: a converting writer is looked for in the W field.
converting_writer_present_in_W(s) == AndW(s) # 0

converting_writer_present(s) == AndC(s) # 0
other_readers_present(s) == AndR(s) > 1
actual_writer_present(s) == AndW(s) # 0

\* decode_increment: the four signed counters <<V, C, W, R>> of an increment.
decode_increment(inc) ==
  LET i3 == AndR(inc) - 2 * (IF AndR(inc) >= sign_bit_r THEN sign_bit_r ELSE 0)
      inc1 == IF i3 < 0 THEN inc + w ELSE inc
      i2 == (AndW(inc1) - 2 * (IF AndW(inc1) >= sign_bit_w THEN sign_bit_w ELSE 0)) \div w
      inc2 == IF i2 < 0 THEN inc1 + c ELSE inc1
      i1 == (AndC(inc2) - 2 * (IF AndC(inc2) >= sign_bit_c THEN sign_bit_c ELSE 0)) \div c
      inc3 == IF i1 < 0 THEN inc2 + v ELSE inc2
      i0 == inc3 \div v
  IN <<i0, i1, i2, i3>>

removes_writer(inc) ==
  LET i == decode_increment(inc) IN i[1] > 0 \/ i[2] < 0 \/ i[3] < 0

removes_converting_or_actual_writer(inc) ==
  LET i == decode_increment(inc)
  IN (i[2] < 0 \/ i[3] < 0) /\ ~(i[2] > 0 \/ i[3] > 0)

removes_converting_writer(inc) == decode_increment(inc)[2] < 0

removes_actual_writer(inc) == decode_increment(inc)[3] < 0

-----------------------------------------------------------------------------
(***************************************************************************)
(* AIReadWriteSpinLock: the threads.                                       *)
(*                                                                         *)
(* pc[t] = "idle": the thread is outside the lock's code.  The labels      *)
(* rb_* are rdlock_blocked, wl_* wrlock, cv_* rd2wrlock, y_* rd2wryield    *)
(* and dt_* the branch of do_transition that takes the mutexes.  A thread  *)
(* at a *_wait label is blocked in condition_variable::wait; a notify      *)
(* moves it to the *_lock label, where it takes the mutex again and        *)
(* evaluates the predicate of the wait once more.                          *)
(***************************************************************************)
ReadersCvWaiters == {t \in Threads : pc[t] = "rb_wait"}
WritersCvWaiters == {t \in Threads : pc[t] \in {"wl_wait", "cv_wait", "y_wait"}}

Woken(p) ==
  CASE p = "rb_wait" -> "rb_lock"
    [] p = "wl_wait" -> "wl_lock"
    [] p = "cv_wait" -> "cv_lock"
    [] p = "y_wait" -> "y_lock"
    [] p = "rwr_wait" -> "rwr_relock"
    [] p = "rww_wait" -> "rww_relock"
    [] p = "rwc_wait" -> "rwc_relock"
    [] p = "rwy_wait" -> "rwy_relock"
    [] OTHER -> p

\* Thread t goes to label l (or returns from do_transition when l is
\* "return") and the threads of `woken' leave their condition_variable::wait.
\* The locals of a call that has returned are cleared.
Goto(t, l, woken) ==
  /\ pc' = [u \in Threads |->
              IF u = t
                THEN (IF l = "return"
                        THEN (IF ret[t] = "wl_spin" THEN "wl_spin" ELSE "idle")
                        ELSE l)
                ELSE IF u \in woken THEN Woken(pc[u]) ELSE pc[u]]
  /\ hold' = IF l = "return" /\ ret[t] = "ret_write"
               THEN [hold EXCEPT ![t] = "write"]
               ELSE hold
  /\ res' = IF l = "return" /\ ret[t] = "ret_throw"
              THEN [res EXCEPT ![t] = "DeadlockAvoided"]
              ELSE res

\* The locals of do_transition, which end with the call.
DTLocals(t, l) ==
  IF l = "return"
    THEN /\ state' = [state EXCEPT ![t] = 0]
         /\ increment' = [increment EXCEPT ![t] = 0]
         /\ ret' = [ret EXCEPT ![t] = "ret"]
    ELSE UNCHANGED <<state, increment, ret>>

\* The notifications do_transition makes after its fetch_add.
\* A variant that notifies the readers when a writer arrives.
NotifiesReaders_on_arrival(t) ==
  ~writer_present(state[t]) /\ writer_present(state[t] + increment[t])

NotifiesReaders(t) ==
  writer_present(state[t]) /\ ~writer_present(state[t] + increment[t])

NotifiesAllWriters(t) ==
  converting_writer_present(state[t])
    /\ ~converting_writer_present(state[t] + increment[t])

NotifiesOneWriter(t) ==
  /\ ~NotifiesAllWriters(t)
  /\ \/ converting_or_actual_writer_present(state[t])
          /\ ~converting_or_actual_writer_present(state[t] + increment[t])
     \/ actual_writer_present(state[t])
          /\ ~actual_writer_present(state[t] + increment[t])

\* A variant of do_transition that notifies nobody.
DTAfterUnlock_silent(t) == "return"

\* A variant of do_transition that forgets the writers when no reader has to
\* be notified.
DTAfterUnlock_readers_only(t) ==
  IF NotifiesReaders(t) THEN "dt_notify_r" ELSE "return"

\* Where do_transition goes once it has released the mutexes.
DTAfterUnlock(t) ==
  IF NotifiesReaders(t) THEN "dt_notify_r"
  ELSE IF NotifiesAllWriters(t) \/ NotifiesOneWriter(t) THEN "dt_notify_w"
  ELSE "return"

\* do_transition<inc>() when removes_writer(inc): called from label-free code,
\* it starts by taking m_readers_cv_mutex.
DTCall(t, inc, k) ==
  /\ increment' = [increment EXCEPT ![t] = inc]
  /\ ret' = [ret EXCEPT ![t] = k]
  /\ pc' = [pc EXCEPT ![t] = "dt_lock_r"]

\* A variant of the first step of do_transition that never takes
\* m_writers_cv_mutex.
DT_LockReaders_readers_only(t) ==
  /\ pc[t] = "dt_lock_r"
  /\ m_readers_cv_mutex = NoThread
  /\ m_readers_cv_mutex' = t
  /\ Goto(t, "dt_add", {})
  /\ UNCHANGED <<m_state, m_writers_cv_mutex, state, increment, ret, locked>>
  /\ UNCHANGED slFrame

\* std::lock_guard<mutex_t> lk(m_readers_cv_mutex);
DT_LockReaders(t) ==
  /\ pc[t] = "dt_lock_r"
  /\ m_readers_cv_mutex = NoThread
  /\ m_readers_cv_mutex' = t
  /\ Goto(t, IF removes_converting_or_actual_writer(increment[t])
                  \/ removes_converting_writer(increment[t])
                  \/ removes_actual_writer(increment[t])
               THEN "dt_lock_w" ELSE "dt_add", {})
  /\ UNCHANGED <<m_state, m_writers_cv_mutex, state, increment, ret, locked>>
  /\ UNCHANGED slFrame

\* std::lock_guard<mutex_t> lk(m_writers_cv_mutex);
DT_LockWriters(t) ==
  /\ pc[t] = "dt_lock_w"
  /\ m_writers_cv_mutex = NoThread
  /\ m_writers_cv_mutex' = t
  /\ Goto(t, "dt_add", {})
  /\ UNCHANGED <<m_state, m_readers_cv_mutex, state, increment, ret, locked>>
  /\ UNCHANGED slFrame

\* previous_state = m_state.fetch_add(increment, ...);
DT_FetchAdd(t) ==
  /\ pc[t] = "dt_add"
  /\ state' = [state EXCEPT ![t] = m_state]
  /\ m_state' = m_state + increment[t]
  /\ Goto(t, IF m_writers_cv_mutex = t THEN "dt_unlock_w" ELSE "dt_unlock_r", {})
  /\ UNCHANGED <<m_readers_cv_mutex, m_writers_cv_mutex, increment, ret, locked>>
  /\ UNCHANGED slFrame

\* The inner lock_guard leaves its scope.
DT_UnlockWriters(t) ==
  /\ pc[t] = "dt_unlock_w"
  /\ m_writers_cv_mutex' = NoThread
  /\ Goto(t, "dt_unlock_r", {})
  /\ UNCHANGED <<m_state, m_readers_cv_mutex, state, increment, ret, locked>>
  /\ UNCHANGED slFrame

\* The outer lock_guard leaves its scope.
DT_UnlockReaders(t) ==
  /\ pc[t] = "dt_unlock_r"
  /\ m_readers_cv_mutex' = NoThread
  /\ Goto(t, DTAfterUnlock(t), {})
  /\ DTLocals(t, DTAfterUnlock(t))
  /\ UNCHANGED <<m_state, m_writers_cv_mutex, locked>>
  /\ UNCHANGED slFrame

\* m_readers_cv.notify_all();
DT_NotifyReaders(t) ==
  /\ pc[t] = "dt_notify_r"
  /\ LET l == IF NotifiesAllWriters(t) \/ NotifiesOneWriter(t)
                THEN "dt_notify_w" ELSE "return"
     IN Goto(t, l, ReadersCvWaiters) /\ DTLocals(t, l)
  /\ UNCHANGED <<m_state, m_readers_cv_mutex, m_writers_cv_mutex, locked>>
  /\ UNCHANGED slFrame

\* m_writers_cv.notify_all(), or m_writers_cv.notify_one(): any one of the
\* threads blocked on m_writers_cv, whatever it waits for.
DT_NotifyWriters(t) ==
  /\ pc[t] = "dt_notify_w"
  /\ IF NotifiesAllWriters(t)
       THEN Goto(t, "return", WritersCvWaiters)
       ELSE IF WritersCvWaiters = {}
         THEN Goto(t, "return", {})
         ELSE \E u \in WritersCvWaiters : Goto(t, "return", {u})
  /\ DTLocals(t, "return")
  /\ UNCHANGED <<m_state, m_readers_cv_mutex, m_writers_cv_mutex, locked>>
  /\ UNCHANGED slFrame

do_transition(t) ==
  \/ DT_LockReaders(t)
  \/ DT_LockWriters(t)
  \/ DT_FetchAdd(t)
  \/ DT_UnlockWriters(t)
  \/ DT_UnlockReaders(t)
  \/ DT_NotifyReaders(t)
  \/ DT_NotifyWriters(t)

-----------------------------------------------------------------------------
(***************************************************************************)
(* AIReadWriteSpinLock::rdlock, rdunlock and rdlock_blocked.               *)
(***************************************************************************)
\* if (writer_present(do_transition<one_rdlock>())) rdlock_blocked();
SL_rdlock(t) ==
  /\ lock = "SL" /\ Permits(t, "rdlock")
  /\ pc[t] = "idle" /\ hold[t] = "none"
  /\ m_state' = m_state + one_rdlock
  /\ IF writer_present(m_state)
       THEN pc' = [pc EXCEPT ![t] = "rb_backout"] /\ hold' = hold
       ELSE pc' = pc /\ hold' = [hold EXCEPT ![t] = "read"]
  /\ UNCHANGED <<m_readers_cv_mutex, m_writers_cv_mutex, state, increment,
                 ret, locked, res>>
  /\ Advance(t, "rdlock")
  /\ UNCHANGED slCallFrame

\* do_transition<one_rdunlock>();
SL_rdunlock(t) ==
  /\ lock = "SL" /\ Permits(t, "rdunlock")
  /\ pc[t] = "idle" /\ hold[t] = "read"
  /\ m_state' = m_state + one_rdunlock
  /\ hold' = [hold EXCEPT ![t] = "none"]
  /\ res' = [res EXCEPT ![t] = "none"]
  /\ UNCHANGED <<m_readers_cv_mutex, m_writers_cv_mutex, pc, state,
                 increment, ret, locked>>
  /\ Advance(t, "rdunlock")
  /\ UNCHANGED slCallFrame

\* do_transition<failed_rdlock>();
RB_Backout(t) ==
  /\ pc[t] = "rb_backout"
  /\ m_state' = m_state + failed_rdlock
  /\ Goto(t, "rb_lock", {})
  /\ UNCHANGED <<m_readers_cv_mutex, m_writers_cv_mutex, state, increment, ret, locked>>
  /\ UNCHANGED slFrame

\* std::unique_lock<mutex_t> lk(m_readers_cv_mutex), and the lock taken
\* again inside m_readers_cv.wait after a notification.
RB_Lock(t) ==
  /\ pc[t] = "rb_lock"
  /\ m_readers_cv_mutex = NoThread
  /\ m_readers_cv_mutex' = t
  /\ Goto(t, "rb_pred", {})
  /\ UNCHANGED <<m_state, m_writers_cv_mutex, state, increment, ret, locked>>
  /\ UNCHANGED slFrame

\* The predicate of m_readers_cv.wait:
\*   int64_t state = 0;
\*   read_locked = m_state.compare_exchange_weak(state, one_rdlock);
\*   return read_locked || !writer_present(state);
\* A predicate that returns false blocks the thread, which releases the
\* mutex.  A weak compare-exchange may fail although m_state is 0.
RB_Pred(t) ==
  /\ pc[t] = "rb_pred"
  /\ \/ /\ m_state = 0
        /\ m_state' = one_rdlock
        /\ locked' = [locked EXCEPT ![t] = TRUE]
        /\ Goto(t, "rb_unlock", {})
        /\ UNCHANGED m_readers_cv_mutex
     \/ /\ ~writer_present(m_state)
        /\ locked' = [locked EXCEPT ![t] = FALSE]
        /\ Goto(t, "rb_unlock", {})
        /\ UNCHANGED <<m_state, m_readers_cv_mutex>>
     \/ /\ writer_present(m_state)
        /\ locked' = [locked EXCEPT ![t] = FALSE]
        /\ m_readers_cv_mutex' = NoThread
        /\ Goto(t, "rb_wait", {})
        /\ UNCHANGED m_state
  /\ UNCHANGED <<m_writers_cv_mutex, state, increment, ret>>
  /\ UNCHANGED slFrame

\* The unique_lock leaves its scope; if (read_locked) break;
RB_Unlock(t) ==
  /\ pc[t] = "rb_unlock"
  /\ m_readers_cv_mutex' = NoThread
  /\ locked' = [locked EXCEPT ![t] = FALSE]
  /\ IF locked[t]
       THEN /\ pc' = [pc EXCEPT ![t] = "idle"]
            /\ hold' = [hold EXCEPT ![t] = "read"]
       ELSE /\ pc' = [pc EXCEPT ![t] = "rb_retry"]
            /\ hold' = hold
  /\ UNCHANGED <<m_state, m_writers_cv_mutex, state, increment, ret, res>>
  /\ UNCHANGED slFrame

\* while (writer_present(do_transition<one_rdlock>()));
RB_Retry(t) ==
  /\ pc[t] = "rb_retry"
  /\ m_state' = m_state + one_rdlock
  /\ IF writer_present(m_state)
       THEN pc' = [pc EXCEPT ![t] = "rb_backout"] /\ hold' = hold
       ELSE pc' = [pc EXCEPT ![t] = "idle"]
            /\ hold' = [hold EXCEPT ![t] = "read"]
  /\ UNCHANGED <<m_readers_cv_mutex, m_writers_cv_mutex, state, increment,
                 ret, locked, res>>
  /\ UNCHANGED slFrame

rdlock_blocked(t) ==
  \/ RB_Backout(t)
  \/ RB_Lock(t)
  \/ RB_Pred(t)
  \/ RB_Unlock(t)
  \/ RB_Retry(t)

-----------------------------------------------------------------------------
(***************************************************************************)
(* AIReadWriteSpinLock::wrlock, wrunlock and wr2rdlock.                    *)
(***************************************************************************)
\* if (!reader_or_writer_present(do_transition<one_wrlock>())) return;
SL_wrlock(t) ==
  /\ lock = "SL" /\ Permits(t, "wrlock")
  /\ pc[t] = "idle" /\ hold[t] = "none"
  /\ m_state' = m_state + one_wrlock
  /\ IF reader_or_writer_present(m_state)
       THEN pc' = [pc EXCEPT ![t] = "wl_failed"] /\ hold' = hold
       ELSE pc' = pc /\ hold' = [hold EXCEPT ![t] = "write"]
  /\ UNCHANGED <<m_readers_cv_mutex, m_writers_cv_mutex, state, increment,
                 ret, locked, res>>
  /\ Advance(t, "wrlock")
  /\ UNCHANGED slCallFrame

\* int64_t state = do_transition<failed_wrlock>();
WL_Failed(t) ==
  /\ pc[t] = "wl_failed"
  /\ DTCall(t, failed_wrlock, "wl_spin")
  /\ UNCHANGED <<m_state, m_readers_cv_mutex, m_writers_cv_mutex, state,
                 locked, hold, res>>
  /\ UNCHANGED slFrame

\* while (reader_present(state = m_state.load(relaxed))) cpu_relax();
\* An iteration that finds a reader changes nothing.
WL_Spin(t) ==
  /\ pc[t] = "wl_spin"
  /\ ~reader_present(m_state)
  /\ state' = [state EXCEPT ![t] = m_state]
  /\ Goto(t, "wl_lock", {})
  /\ UNCHANGED <<m_state, m_readers_cv_mutex, m_writers_cv_mutex, increment, ret, locked>>
  /\ UNCHANGED slFrame

\* std::unique_lock<mutex_t> lk(m_writers_cv_mutex), and the lock taken
\* again inside m_writers_cv.wait after a notification.
WL_Lock(t) ==
  /\ pc[t] = "wl_lock"
  /\ m_writers_cv_mutex = NoThread
  /\ m_writers_cv_mutex' = t
  /\ Goto(t, "wl_pred", {})
  /\ UNCHANGED <<m_state, m_readers_cv_mutex, state, increment, ret, locked>>
  /\ UNCHANGED slFrame

\* The predicate of m_writers_cv.wait in wrlock:
\*   state &= V_mask;
\*   write_locked = m_state.compare_exchange_weak(state, state + finalize_wrlock);
\*   return write_locked || !converting_or_actual_writer_present(state);
\* The lambda keeps its own copy of state from one evaluation to the next.
WL_Pred(t) ==
  /\ pc[t] = "wl_pred"
  /\ \/ /\ m_state = AndV(state[t])
        /\ m_state' = AndV(state[t]) + finalize_wrlock
        /\ state' = [state EXCEPT ![t] = AndV(state[t])]
        /\ locked' = [locked EXCEPT ![t] = TRUE]
        /\ Goto(t, "wl_unlock", {})
        /\ UNCHANGED m_writers_cv_mutex
     \/ /\ ~converting_or_actual_writer_present(m_state)
        /\ state' = [state EXCEPT ![t] = m_state]
        /\ locked' = [locked EXCEPT ![t] = FALSE]
        /\ Goto(t, "wl_unlock", {})
        /\ UNCHANGED <<m_state, m_writers_cv_mutex>>
     \/ /\ converting_or_actual_writer_present(m_state)
        /\ state' = [state EXCEPT ![t] = m_state]
        /\ locked' = [locked EXCEPT ![t] = FALSE]
        /\ m_writers_cv_mutex' = NoThread
        /\ Goto(t, "wl_wait", {})
        /\ UNCHANGED m_state
  /\ UNCHANGED <<m_readers_cv_mutex, increment, ret>>
  /\ UNCHANGED slFrame

\* The unique_lock leaves its scope; if (write_locked) break;
WL_Unlock(t) ==
  /\ pc[t] = "wl_unlock"
  /\ m_writers_cv_mutex' = NoThread
  /\ state' = [state EXCEPT ![t] = 0]
  /\ locked' = [locked EXCEPT ![t] = FALSE]
  /\ IF locked[t]
       THEN /\ pc' = [pc EXCEPT ![t] = "idle"]
            /\ hold' = [hold EXCEPT ![t] = "write"]
       ELSE /\ pc' = [pc EXCEPT ![t] = "wl_finalize"]
            /\ hold' = hold
  /\ UNCHANGED <<m_state, m_readers_cv_mutex, increment, ret, res>>
  /\ UNCHANGED slFrame

\* while (reader_or_converting_or_actual_writer_present(
\*            do_transition<finalize_wrlock>()));
WL_Finalize(t) ==
  /\ pc[t] = "wl_finalize"
  /\ m_state' = m_state + finalize_wrlock
  /\ IF reader_or_converting_or_actual_writer_present(m_state)
       THEN pc' = [pc EXCEPT ![t] = "wl_failed"] /\ hold' = hold
       ELSE pc' = [pc EXCEPT ![t] = "idle"]
            /\ hold' = [hold EXCEPT ![t] = "write"]
  /\ UNCHANGED <<m_readers_cv_mutex, m_writers_cv_mutex, state, increment,
                 ret, locked, res>>
  /\ UNCHANGED slFrame

wrlock_blocked(t) ==
  \/ WL_Failed(t)
  \/ WL_Spin(t)
  \/ WL_Lock(t)
  \/ WL_Pred(t)
  \/ WL_Unlock(t)
  \/ WL_Finalize(t)

\* do_transition<one_wrunlock>();
SL_wrunlock(t) ==
  /\ lock = "SL" /\ Permits(t, "wrunlock")
  /\ pc[t] = "idle" /\ hold[t] = "write"
  /\ DTCall(t, one_wrunlock, "ret")
  /\ hold' = [hold EXCEPT ![t] = "none"]
  /\ UNCHANGED <<m_state, m_readers_cv_mutex, m_writers_cv_mutex, state, locked, res>>
  /\ Advance(t, "wrunlock")
  /\ UNCHANGED slCallFrame

\* do_transition<one_wr2rdlock>();
SL_wr2rdlock(t) ==
  /\ lock = "SL" /\ Permits(t, "wr2rdlock")
  /\ pc[t] = "idle" /\ hold[t] = "write"
  /\ DTCall(t, one_wr2rdlock, "ret")
  /\ hold' = [hold EXCEPT ![t] = "read"]
  /\ UNCHANGED <<m_state, m_readers_cv_mutex, m_writers_cv_mutex, state, locked, res>>
  /\ Advance(t, "wr2rdlock")
  /\ UNCHANGED slCallFrame

-----------------------------------------------------------------------------
(***************************************************************************)
(* AIReadWriteSpinLock::rd2wrlock and rd2wryield.                          *)
(***************************************************************************)
\* A variant of rd2wrlock that throws without reverting its increment.
SL_rd2wrlock_no_revert(t) ==
  /\ lock = "SL" /\ Permits(t, "rd2wrlock")
  /\ pc[t] = "idle" /\ hold[t] = "read" /\ res[t] # "DeadlockAvoided"
  /\ m_state' = m_state + one_rd2wrlock
  /\ IF ~reader_or_converting_or_actual_writer_present(m_state)
       THEN DTCall(t, successful_rd2wrlock, "ret_write")
       ELSE IF converting_writer_present(m_state)
         THEN DTCall(t, r - r, "ret_throw")
         ELSE /\ pc' = [pc EXCEPT ![t] = "cv_spin"]
              /\ UNCHANGED <<increment, ret>>
  /\ UNCHANGED <<m_readers_cv_mutex, m_writers_cv_mutex, state, locked, hold, res>>
  /\ Advance(t, "rd2wrlock")
  /\ UNCHANGED slCallFrame

\* state = do_transition<one_rd2wrlock>(), and the two tests of state that
\* follow: the immediate success (do_transition<successful_rd2wrlock>()),
\* the dead-lock (do_transition<-one_rd2wrlock>(); throw std::exception())
\* or the spin loop.
SL_rd2wrlock(t) ==
  /\ lock = "SL" /\ Permits(t, "rd2wrlock")
  /\ pc[t] = "idle" /\ hold[t] = "read" /\ res[t] # "DeadlockAvoided"
  /\ m_state' = m_state + one_rd2wrlock
  /\ IF ~reader_or_converting_or_actual_writer_present(m_state)
       THEN DTCall(t, successful_rd2wrlock, "ret_write")
       ELSE IF converting_writer_present(m_state)
         THEN DTCall(t, -one_rd2wrlock, "ret_throw")
         ELSE /\ pc' = [pc EXCEPT ![t] = "cv_spin"]
              /\ UNCHANGED <<increment, ret>>
  /\ UNCHANGED <<m_readers_cv_mutex, m_writers_cv_mutex, state, locked, hold, res>>
  /\ Advance(t, "rd2wrlock")
  /\ UNCHANGED slCallFrame

\* while (other_readers_present(state = m_state.load(relaxed))) cpu_relax();
\* An iteration that finds another reader changes nothing.
CV_Spin(t) ==
  /\ pc[t] = "cv_spin"
  /\ ~other_readers_present(m_state)
  /\ state' = [state EXCEPT ![t] = m_state]
  /\ Goto(t, "cv_lock", {})
  /\ UNCHANGED <<m_state, m_readers_cv_mutex, m_writers_cv_mutex, increment,
                 ret, locked>>
  /\ UNCHANGED slFrame

\* std::unique_lock<mutex_t> lk(m_writers_cv_mutex), and the lock taken
\* again inside m_writers_cv.wait after a notification.
CV_Lock(t) ==
  /\ pc[t] = "cv_lock"
  /\ m_writers_cv_mutex = NoThread
  /\ m_writers_cv_mutex' = t
  /\ Goto(t, "cv_pred", {})
  /\ UNCHANGED <<m_state, m_readers_cv_mutex, state, increment, ret, locked>>
  /\ UNCHANGED slFrame

\* One iteration of the do/while loop in the predicate of m_writers_cv.wait
\* in rd2wrlock:
\*   state &= ~W_mask;
\*   write_locked = m_state.compare_exchange_weak(state, state + successful_rd2wrlock);
\*   if (write_locked && !converting_writer_present(state + successful_rd2wrlock))
\*     m_writers_cv.notify_all();
\* The loop ends when write_locked || actual_writer_present(state), and the
\* predicate returns write_locked.  An iteration whose compare-exchange
\* fails without an actual writer only reloads state.
CV_Pred(t) ==
  /\ pc[t] = "cv_pred"
  /\ LET expected == state[t] - AndW(state[t])
     IN \/ /\ m_state = expected
           /\ m_state' = expected + successful_rd2wrlock
           /\ state' = [state EXCEPT ![t] = expected]
           /\ locked' = [locked EXCEPT ![t] = TRUE]
           /\ Goto(t, "cv_unlock",
                   IF converting_writer_present(expected + successful_rd2wrlock)
                     THEN {} ELSE WritersCvWaiters)
           /\ UNCHANGED m_writers_cv_mutex
        \/ /\ m_state # expected
           /\ ~actual_writer_present(m_state)
           /\ state' = [state EXCEPT ![t] = m_state]
           /\ Goto(t, "cv_pred", {})
           /\ UNCHANGED <<m_state, m_writers_cv_mutex, locked>>
        \/ /\ actual_writer_present(m_state)
           /\ state' = [state EXCEPT ![t] = m_state]
           /\ m_writers_cv_mutex' = NoThread
           /\ Goto(t, "cv_wait", {})
           /\ UNCHANGED <<m_state, locked>>
  /\ UNCHANGED <<m_readers_cv_mutex, increment, ret>>
  /\ UNCHANGED slFrame

\* The unique_lock leaves its scope and rd2wrlock returns.
CV_Unlock(t) ==
  /\ pc[t] = "cv_unlock"
  /\ m_writers_cv_mutex' = NoThread
  /\ state' = [state EXCEPT ![t] = 0]
  /\ locked' = [locked EXCEPT ![t] = FALSE]
  /\ pc' = [pc EXCEPT ![t] = "idle"]
  /\ hold' = [hold EXCEPT ![t] = "write"]
  /\ UNCHANGED <<m_state, m_readers_cv_mutex, increment, ret, res>>
  /\ UNCHANGED slFrame

rd2wrlock_blocked(t) ==
  \/ CV_Spin(t)
  \/ CV_Lock(t)
  \/ CV_Pred(t)
  \/ CV_Unlock(t)

\* std::this_thread::yield(); std::unique_lock<mutex_t> lk(m_writers_cv_mutex);
SL_rd2wryield(t) ==
  /\ lock = "SL" /\ Permits(t, "rd2wryield")
  /\ pc[t] = "idle" /\ hold[t] = "none"
  /\ pc' = [pc EXCEPT ![t] = "y_lock"]
  /\ UNCHANGED <<m_state, m_readers_cv_mutex, m_writers_cv_mutex, state,
                 increment, ret, locked, hold, res>>
  /\ Advance(t, "rd2wryield")
  /\ UNCHANGED slCallFrame

Y_Lock(t) ==
  /\ pc[t] = "y_lock"
  /\ m_writers_cv_mutex = NoThread
  /\ m_writers_cv_mutex' = t
  /\ Goto(t, "y_pred", {})
  /\ UNCHANGED <<m_state, m_readers_cv_mutex, state, increment, ret, locked>>
  /\ UNCHANGED slFrame

\* The predicate of m_writers_cv.wait in rd2wryield:
\*   return !converting_writer_present(m_state.load(relaxed));
\* When it returns true the unique_lock leaves its scope.
Y_Pred(t) ==
  /\ pc[t] = "y_pred"
  /\ m_writers_cv_mutex' = NoThread
  /\ Goto(t, IF converting_writer_present(m_state) THEN "y_wait" ELSE "idle", {})
  /\ UNCHANGED <<m_state, m_readers_cv_mutex, state, increment, ret, locked>>
  /\ UNCHANGED slFrame

rd2wryield_blocked(t) ==
  \/ Y_Lock(t)
  \/ Y_Pred(t)

-----------------------------------------------------------------------------
(***************************************************************************)
(* AIReadWriteMutex: one std::mutex, m_state_mutex, guards the three       *)
(* counters; four condition variables.  The labels rwr_* are rdlock,       *)
(* rwu_* rdunlock, rww_* wrlock, rwc_* rd2wrlock, rwy_* rd2wryield, rwx_*  *)
(* wrunlock and rwd_* wr2rdlock.  A thread at a *_wait label is blocked   *)
(* in condition_variable::wait; a notification moves it to the *_relock   *)
(* label, where it takes m_state_mutex again.                              *)
(***************************************************************************)
rwFrame == <<progVars, slVars, testVars, tokVars, trkVars, mqVars,
   utilVars>>
rwCallFrame == <<lock, prog, slVars, testVars, tokVars, trkVars, mqVars,
   utilVars>>

\* The threads blocked on each of the four condition variables.
NoWriterLeftWaiters == {t \in Threads : pc[t] = "rwr_wait"}
UnlockedWaiters == {t \in Threads : pc[t] = "rww_wait"}
OneReaderLeftWaiters == {t \in Threads : pc[t] = "rwc_wait"}
Rd2wrCountZeroWaiters == {t \in Threads : pc[t] = "rwy_wait"}

\* Thread t goes to label l and the threads of `woken' leave their wait.
Move(t, l, woken) ==
  pc' = [u \in Threads |->
           IF u = t THEN l
           ELSE IF u \in woken THEN Woken(pc[u]) ELSE pc[u]]

\* The predicates of the four waits, named after their condition variables:
\* m_readers_count >= 0, m_readers_count == 0, m_readers_count == 1 and
\* m_rd2wr_count == 0.
no_writer_left(n) == n >= 0

\* A variant that lets a writer in while readers hold the mutex.
unlocked_or_read_locked(n) == n >= 0

unlocked(n) == n = 0

one_reader_left(n) == n = 1

\* A variant that is false while m_rd2wr_count is not negative.
rd2wr_count_zero_never(n) == n < 0

rd2wr_count_zero(n) == n = 0

\* notify_one wakes any one of the waiters, when there is one.
NotifyOne(t, l, waiters) ==
  IF waiters = {}
    THEN Move(t, l, {})
    ELSE \E u \in waiters : Move(t, l, {u})

\* What follows once m_state_mutex is taken again inside wait: the predicate
\* of the wait is evaluated once more.
AfterLock(p) ==
  CASE p = "rwr_relock" -> "rwr_repred"
    [] p = "rww_relock" -> "rww_pred"
    [] p = "rwc_relock" -> "rwc_pred"
    [] p = "rwy_relock" -> "rwy_pred"
    [] OTHER -> p

\* A thread that a notification (or nothing) woke takes m_state_mutex again.
RW_Lock(t) ==
  /\ AfterLock(pc[t]) # pc[t]
  /\ m_state_mutex = NoThread
  /\ m_state_mutex' = t
  /\ Move(t, AfterLock(pc[t]), {})
  /\ UNCHANGED <<hold, res, m_readers_count, m_waiting_writers, m_rd2wr_count,
                 waiting_writer>>
  /\ UNCHANGED rwFrame

\* The first statement of every member function takes m_state_mutex
\* (std::unique_lock<std::mutex> lk(m_state_mutex), m_state_mutex.lock()):
\* a call starts when it gets the mutex.
EnterCall(t, l) ==
  /\ m_state_mutex = NoThread
  /\ m_state_mutex' = t
  /\ Move(t, l, {})
  /\ UNCHANGED <<m_readers_count, m_waiting_writers, m_rd2wr_count,
                 waiting_writer>>

\* void rdlock(): rwr_pred is the first evaluation of the predicate of its
\* wait, rwr_repred an evaluation after a wake-up.
RW_rdlock(t) ==
  /\ lock = "RW" /\ Permits(t, "rdlock")
  /\ pc[t] = "idle" /\ hold[t] = "none"
  /\ EnterCall(t, "rwr_pred")
  /\ Advance(t, "rdlock")
  /\ UNCHANGED <<hold, res>>
  /\ UNCHANGED rwCallFrame

\* m_condition_no_writer_left.wait(lk, [this]{return m_readers_count >= 0;});
\* ++m_readers_count;
RWR_Pred(t) ==
  /\ pc[t] \in {"rwr_pred", "rwr_repred"}
  /\ m_state_mutex' = NoThread
  /\ IF no_writer_left(m_readers_count)
       THEN /\ m_readers_count' = m_readers_count + 1
            /\ Move(t, "idle", {})
            /\ hold' = [hold EXCEPT ![t] = "read"]
       ELSE /\ Move(t, "rwr_wait", {})
            /\ UNCHANGED <<m_readers_count, hold>>
  /\ UNCHANGED <<res, m_waiting_writers, m_rd2wr_count, waiting_writer>>
  /\ UNCHANGED rwFrame

\* void rdunlock()
RW_rdunlock(t) ==
  /\ lock = "RW" /\ Permits(t, "rdunlock")
  /\ pc[t] = "idle" /\ hold[t] = "read"
  /\ EnterCall(t, "rwu_body")
  /\ hold' = [hold EXCEPT ![t] = "none"]
  /\ res' = [res EXCEPT ![t] = "none"]
  /\ Advance(t, "rdunlock")
  /\ UNCHANGED rwCallFrame

\* if (--m_readers_count <= 1)
\*   { bool one_reader_left = m_readers_count == 1; lk.unlock(); ... }
RWU_Body(t) ==
  /\ pc[t] = "rwu_body"
  /\ m_readers_count' = m_readers_count - 1
  /\ m_state_mutex' = NoThread
  /\ Move(t, IF m_readers_count - 1 > 1 THEN "idle"
             ELSE IF m_readers_count - 1 = 1 THEN "rwu_notify_one_reader_left"
             ELSE "rwu_notify_unlocked", {})
  /\ UNCHANGED <<hold, res, m_waiting_writers, m_rd2wr_count, waiting_writer>>
  /\ UNCHANGED rwFrame

\* if (one_reader_left) m_condition_one_reader_left.notify_one();
\* else m_condition_unlocked.notify_one();
RWU_Notify(t) ==
  /\ pc[t] \in {"rwu_notify_one_reader_left", "rwu_notify_unlocked"}
  /\ NotifyOne(t, "idle", IF pc[t] = "rwu_notify_one_reader_left"
                            THEN OneReaderLeftWaiters ELSE UnlockedWaiters)
  /\ UNCHANGED <<hold, res, rwVars>>
  /\ UNCHANGED rwFrame

\* void wrlock()
RW_wrlock(t) ==
  /\ lock = "RW" /\ Permits(t, "wrlock")
  /\ pc[t] = "idle" /\ hold[t] = "none"
  /\ EnterCall(t, "rww_enter")
  /\ Advance(t, "wrlock")
  /\ UNCHANGED <<hold, res>>
  /\ UNCHANGED rwCallFrame

\* ++m_waiting_writers;
RWW_Enter(t) ==
  /\ pc[t] = "rww_enter"
  /\ m_waiting_writers' = m_waiting_writers + 1
  /\ Move(t, "rww_pred", {})
  /\ UNCHANGED <<hold, res, m_state_mutex, m_readers_count, m_rd2wr_count,
                 waiting_writer>>
  /\ UNCHANGED rwFrame

\* m_condition_unlocked.wait(lk, [this]{return m_readers_count == 0;});
\* --m_waiting_writers; m_readers_count = -1;
RWW_Pred(t) ==
  /\ pc[t] = "rww_pred"
  /\ m_state_mutex' = NoThread
  /\ IF unlocked(m_readers_count)
       THEN /\ m_waiting_writers' = m_waiting_writers - 1
            /\ m_readers_count' = -1
            /\ Move(t, "idle", {})
            /\ hold' = [hold EXCEPT ![t] = "write"]
       ELSE /\ Move(t, "rww_wait", {})
            /\ UNCHANGED <<m_waiting_writers, m_readers_count, hold>>
  /\ UNCHANGED <<res, m_rd2wr_count, waiting_writer>>
  /\ UNCHANGED rwFrame

\* void rd2wrlock()
RW_rd2wrlock(t) ==
  /\ lock = "RW" /\ Permits(t, "rd2wrlock")
  /\ pc[t] = "idle" /\ hold[t] = "read" /\ res[t] # "DeadlockAvoided"
  /\ EnterCall(t, "rwc_enter")
  /\ Advance(t, "rd2wrlock")
  /\ UNCHANGED <<hold, res>>
  /\ UNCHANGED rwCallFrame

\* if (++m_rd2wr_count > 1) { --m_rd2wr_count; throw std::exception(); }
\* ++m_waiting_writers;
RWC_Enter(t) ==
  /\ pc[t] = "rwc_enter"
  /\ IF m_rd2wr_count + 1 > 1
       THEN /\ m_state_mutex' = NoThread
            /\ Move(t, "idle", {})
            /\ res' = [res EXCEPT ![t] = "DeadlockAvoided"]
            /\ UNCHANGED <<m_rd2wr_count, m_waiting_writers>>
       ELSE /\ m_rd2wr_count' = m_rd2wr_count + 1
            /\ m_waiting_writers' = m_waiting_writers + 1
            /\ Move(t, "rwc_pred", {})
            /\ UNCHANGED <<m_state_mutex, res>>
  /\ UNCHANGED <<hold, m_readers_count, waiting_writer>>
  /\ UNCHANGED rwFrame

\* m_condition_one_reader_left.wait(lk, [this]{return m_readers_count == 1;});
\* --m_waiting_writers; m_readers_count = -1;
\* if (--m_rd2wr_count == 0) m_condition_rd2wr_count_zero.notify_one();
RWC_Pred(t) ==
  /\ pc[t] = "rwc_pred"
  /\ m_state_mutex' = NoThread
  /\ IF one_reader_left(m_readers_count)
       THEN /\ m_waiting_writers' = m_waiting_writers - 1
            /\ m_readers_count' = -1
            /\ m_rd2wr_count' = m_rd2wr_count - 1
            /\ IF m_rd2wr_count - 1 = 0
                 THEN NotifyOne(t, "idle", Rd2wrCountZeroWaiters)
                 ELSE Move(t, "idle", {})
            /\ hold' = [hold EXCEPT ![t] = "write"]
       ELSE /\ Move(t, "rwc_wait", {})
            /\ UNCHANGED <<m_waiting_writers, m_readers_count, m_rd2wr_count,
                           hold>>
  /\ UNCHANGED <<res, waiting_writer>>
  /\ UNCHANGED rwFrame

\* void rd2wryield(): std::this_thread::yield();
RW_rd2wryield(t) ==
  /\ lock = "RW" /\ Permits(t, "rd2wryield")
  /\ pc[t] = "idle" /\ hold[t] = "none"
  /\ EnterCall(t, "rwy_pred")
  /\ Advance(t, "rd2wryield")
  /\ UNCHANGED <<hold, res>>
  /\ UNCHANGED rwCallFrame

\* m_condition_rd2wr_count_zero.wait(lk, [this]{return m_rd2wr_count == 0;});
RWY_Pred(t) ==
  /\ pc[t] = "rwy_pred"
  /\ m_state_mutex' = NoThread
  /\ Move(t, IF rd2wr_count_zero(m_rd2wr_count) THEN "idle" ELSE "rwy_wait",
          {})
  /\ UNCHANGED <<hold, res, m_readers_count, m_waiting_writers, m_rd2wr_count,
                 waiting_writer>>
  /\ UNCHANGED rwFrame

\* void wrunlock()
RW_wrunlock(t) ==
  /\ lock = "RW" /\ Permits(t, "wrunlock")
  /\ pc[t] = "idle" /\ hold[t] = "write"
  /\ EnterCall(t, "rwx_body")
  /\ hold' = [hold EXCEPT ![t] = "none"]
  /\ Advance(t, "wrunlock")
  /\ UNCHANGED res
  /\ UNCHANGED rwCallFrame

\* m_readers_count = 0; int waiting_writer = m_waiting_writers;
\* m_state_mutex.unlock();
RWX_Body(t) ==
  /\ pc[t] = "rwx_body"
  /\ m_readers_count' = 0
  /\ waiting_writer' = [waiting_writer EXCEPT ![t] = m_waiting_writers]
  /\ m_state_mutex' = NoThread
  /\ Move(t, "rwx_notify", {})
  /\ UNCHANGED <<hold, res, m_waiting_writers, m_rd2wr_count>>
  /\ UNCHANGED rwFrame

\* if (waiting_writer) m_condition_unlocked.notify_one();
\* else m_condition_no_writer_left.notify_all();
RWX_Notify(t) ==
  /\ pc[t] = "rwx_notify"
  /\ IF waiting_writer[t] # 0
       THEN NotifyOne(t, "idle", UnlockedWaiters)
       ELSE Move(t, "idle", NoWriterLeftWaiters)
  /\ waiting_writer' = [waiting_writer EXCEPT ![t] = 0]
  /\ UNCHANGED <<hold, res, m_state_mutex, m_readers_count, m_waiting_writers,
                 m_rd2wr_count>>
  /\ UNCHANGED rwFrame

\* void wr2rdlock()
RW_wr2rdlock(t) ==
  /\ lock = "RW" /\ Permits(t, "wr2rdlock")
  /\ pc[t] = "idle" /\ hold[t] = "write"
  /\ EnterCall(t, "rwd_body")
  /\ hold' = [hold EXCEPT ![t] = "read"]
  /\ Advance(t, "wr2rdlock")
  /\ UNCHANGED res
  /\ UNCHANGED rwCallFrame

\* m_readers_count = 1; int waiting_writer = m_waiting_writers;
\* m_state_mutex.unlock();
RWD_Body(t) ==
  /\ pc[t] = "rwd_body"
  /\ m_readers_count' = 1
  /\ waiting_writer' = [waiting_writer EXCEPT ![t] = m_waiting_writers]
  /\ m_state_mutex' = NoThread
  /\ Move(t, "rwd_notify", {})
  /\ UNCHANGED <<hold, res, m_waiting_writers, m_rd2wr_count>>
  /\ UNCHANGED rwFrame

\* A variant that tells the waiting readers whether or not a writer waits.
RWD_Notify_always(t) ==
  /\ pc[t] = "rwd_notify"
  /\ Move(t, "idle", NoWriterLeftWaiters)
  /\ waiting_writer' = [waiting_writer EXCEPT ![t] = 0]
  /\ UNCHANGED <<hold, res, m_state_mutex, m_readers_count, m_waiting_writers,
                 m_rd2wr_count>>
  /\ UNCHANGED rwFrame

\* if (!waiting_writer) m_condition_no_writer_left.notify_all();
RWD_Notify(t) ==
  /\ pc[t] = "rwd_notify"
  /\ Move(t, "idle", IF waiting_writer[t] = 0 THEN NoWriterLeftWaiters ELSE {})
  /\ waiting_writer' = [waiting_writer EXCEPT ![t] = 0]
  /\ UNCHANGED <<hold, res, m_state_mutex, m_readers_count, m_waiting_writers,
                 m_rd2wr_count>>
  /\ UNCHANGED rwFrame

-----------------------------------------------------------------------------
\* A thread blocked in condition_variable::wait may wake up without a
\* notification.
SpuriousWakeup(t) ==
  /\ Woken(pc[t]) # pc[t]
  /\ Move(t, Woken(pc[t]), {})
  /\ UNCHANGED <<hold, res, progVars, slVars, rwVars, testVars, tokVars,
                 trkVars, mqVars, utilVars>>

-----------------------------------------------------------------------------
(***************************************************************************)
(* The stress test: add(d, i) and read(i), which run() calls with the      *)
(* write lock and with a read lock.  Each is three steps: the increment    *)
(* of its atomic counter, its assert and assignment to count, and the      *)
(* decrement.  (The bookkeeping of max_readers, which nothing reads back,  *)
(* is left out.)                                                           *)
(***************************************************************************)
testFrame == <<lock, prog, iter, thrVars, slVars, rwVars, tokVars, trkVars,
              mqVars,
   utilVars>>

\* ++write_access;
Add_Inc(t) ==
  /\ pc[t] = "idle"
  /\ \/ phase[t] = "add1" /\ phase' = [phase EXCEPT ![t] = "add1_chk"]
     \/ /\ phase[t] = "try" /\ res[t] # "DeadlockAvoided"
        /\ phase' = [phase EXCEPT ![t] = "add2_chk"]
  /\ write_access' = write_access + 1
  /\ UNCHANGED <<count, read_access>>
  /\ UNCHANGED testFrame

\* assert(write_access == 1 && read_access == 0); count[0] = count[i] + d;
\* run() calls add(1) and add(-1, thr).
Add_Body(t) ==
  /\ phase[t] \in {"add1_chk", "add2_chk"}
  /\ count' = [count EXCEPT ![0] = IF phase[t] = "add1_chk"
                                     THEN count[0] + 1 ELSE count[t] - 1]
  /\ phase' = [phase EXCEPT ![t] = IF phase[t] = "add1_chk"
                                     THEN "add1_dec" ELSE "add2_dec"]
  /\ UNCHANGED <<write_access, read_access>>
  /\ UNCHANGED testFrame

\* --write_access;
Add_Dec(t) ==
  /\ phase[t] \in {"add1_dec", "add2_dec"}
  /\ write_access' = write_access - 1
  /\ phase' = [phase EXCEPT ![t] = IF phase[t] = "add1_dec"
                                     THEN "wrunlock1" ELSE "wrunlock2"]
  /\ UNCHANGED <<count, read_access>>
  /\ UNCHANGED testFrame

\* ++read_access;
Read_Inc(t) ==
  /\ pc[t] = "idle" /\ phase[t] = "read"
  /\ read_access' = read_access + 1
  /\ phase' = [phase EXCEPT ![t] = "read_chk"]
  /\ UNCHANGED <<count, write_access>>
  /\ UNCHANGED testFrame

\* assert(write_access == 0); count[i] = count[0];
Read_Body(t) ==
  /\ phase[t] = "read_chk"
  /\ count' = [count EXCEPT ![t] = count[0]]
  /\ phase' = [phase EXCEPT ![t] = "read_dec"]
  /\ UNCHANGED <<write_access, read_access>>
  /\ UNCHANGED testFrame

\* --read_access;
Read_Dec(t) ==
  /\ phase[t] = "read_dec"
  /\ read_access' = read_access - 1
  /\ phase' = [phase EXCEPT ![t] = "rd2wrlock"]
  /\ UNCHANGED <<count, write_access>>
  /\ UNCHANGED testFrame

add(t) == Add_Inc(t) \/ Add_Body(t) \/ Add_Dec(t)

read(t) == Read_Inc(t) \/ Read_Body(t) \/ Read_Dec(t)

-----------------------------------------------------------------------------
(***************************************************************************)
(* The access objects of threadsafe.h under the ReadWrite policy:          *)
(* ReadAccess (rat), WriteAccess (wat) and Write2ReadCarry (w2rCarry), all *)
(* of one Unlocked object, whose mutex is the AIReadWriteMutex.  They are  *)
(* automatic variables, so that every thread has a stack of them.  A       *)
(* constructor first initialises its base class (which fixes m_state) and  *)
(* then calls the mutex; the object lives (alive) from the end of its      *)
(* constructor to the start of its destructor.                             *)
(***************************************************************************)
\* The number of access objects that a thread has at a time.
MaxTokens == 3

\* enum state_type
state_type ==
  {"readlocked", "read2writelocked", "writelocked", "write2writelocked",
   "carrylocked"}

\* An object of class cls whose base class has been initialised with m_state
\* st; a Write2ReadCarry has m_used, and no m_state ("none").  view is the
\* class of the reference through which the running function uses the
\* object: its own class, or a base class.
Token(cls, st) ==
  [cls |-> cls, m_state |-> st, m_used |-> FALSE, alive |-> FALSE,
   view |-> cls]

Top(t) == tokens[t][Len(tokens[t])]

tokFrame == <<lock, prog, iter, thrVars, slVars, rwVars, testVars, trkVars,
             mqVars,
   utilVars>>

\* The start of a constructor: the new object is tok, and the constructor
\* goes on with the call of the member function `call' of the mutex (with
\* "ctor_end" when it calls none).
Construct(t, toks, tok, call) ==
  /\ prog = "tokens" /\ phase[t] = "scope"
  /\ pc[t] = "idle" /\ res[t] # "DeadlockAvoided"
  /\ Len(toks) < MaxTokens
  /\ tokens' = [tokens EXCEPT ![t] = Append(toks, tok)]
  /\ phase' = [phase EXCEPT ![t] = call]
  /\ UNCHANGED tokFrame

\* ConstReadAccess(UNLOCKED const& unlocked, Args&&... args)
\*   : m_unlocked(...), m_state(readlocked) { mutex().rdlock(); }
ConstReadAccess_Unlocked(t) ==
  /\ tokens[t] = <<>>
  /\ Construct(t, tokens[t], Token("ConstReadAccess", "readlocked"), "rdlock")

\* explicit ReadAccess(UNLOCKED& unlocked, Args&&... args)
\*   : ConstReadAccess<UNLOCKED>(unlocked, readlocked) { mutex().rdlock(); }
ReadAccess_Unlocked(t) ==
  /\ tokens[t] = <<>>
  /\ Construct(t, tokens[t], Token("ReadAccess", "readlocked"), "rdlock")

\* explicit ReadAccess(Write2ReadCarry<UNLOCKED> const& w2rc)
\*   : ConstReadAccess<UNLOCKED>(w2rc.m_unlocked, carrylocked)
\*   { assert(w2rc.m_used); }
ReadAccess_Carry(t) ==
  /\ \E j \in 1..Len(tokens[t]) :
       tokens[t][j].cls = "Write2ReadCarry" /\ tokens[t][j].m_used
  /\ Construct(t, tokens[t], Token("ReadAccess", "carrylocked"), "ctor_end")

\* explicit WriteAccess(UNLOCKED& unlocked, Args&&... args)
\*   : ReadAccess<UNLOCKED>(unlocked, writelocked) { mutex().wrlock(); }
WriteAccess_Unlocked(t) ==
  /\ tokens[t] = <<>>
  /\ Construct(t, tokens[t], Token("WriteAccess", "writelocked"), "wrlock")

\* explicit WriteAccess(ReadAccess<UNLOCKED>& access)
\*   : ReadAccess<UNLOCKED>(*access.m_unlocked, write2writelocked)
\*   { if (access.m_state == readlocked) { mutex().rd2wrlock(); ... } }
\* access is the innermost object of the thread, a rat or a wat.
WriteAccess_Access(t) ==
  /\ tokens[t] # <<>>
  /\ Top(t).cls \in {"ReadAccess", "WriteAccess"} /\ Top(t).alive
  /\ Top(t).view # "ConstReadAccess"
  /\ Construct(t, tokens[t], Token("WriteAccess", "write2writelocked"),
               IF Top(t).m_state = "readlocked" THEN "rd2wrlock"
               ELSE "ctor_end")

\* explicit WriteAccess(Write2ReadCarry<UNLOCKED>& w2rc)
\*   : ReadAccess<UNLOCKED>(w2rc.m_unlocked, read2writelocked)
\*   { assert(!w2rc.m_used); w2rc.m_used = true; mutex().wrlock(); }
WriteAccess_Carry(t) ==
  /\ tokens[t] # <<>>
  /\ Top(t).cls = "Write2ReadCarry" /\ ~Top(t).m_used
  /\ Construct(t, [tokens[t] EXCEPT ![Len(tokens[t])].m_used = TRUE],
               Token("WriteAccess", "read2writelocked"), "wrlock")

\* explicit Write2ReadCarry(UNLOCKED& unlocked)
\*   : m_unlocked(unlocked), m_used(false) { }
Write2ReadCarry_Unlocked(t) ==
  /\ tokens[t] = <<>>
  /\ Construct(t, tokens[t], Token("Write2ReadCarry", "none"), "ctor_end")

\* The end of a constructor that called rdlock or wrlock, or nothing: the
\* object is there.
Constructed(t) ==
  /\ prog = "tokens" /\ phase[t] = "ctor_end" /\ pc[t] = "idle"
  /\ tokens' = [tokens EXCEPT ![t][Len(tokens[t])].alive = TRUE]
  /\ phase' = [phase EXCEPT ![t] = "scope"]
  /\ UNCHANGED tokFrame

\* The class that a reference to an object of class cls converts to: a wat
\* is a rat (struct WriteAccess : public ReadAccess<UNLOCKED>), and a rat
\* converts to a crat (operator ConstReadAccess<...> const&() const).
BaseView(cls) ==
  IF cls = "WriteAccess" THEN "ReadAccess" ELSE "ConstReadAccess"

\* A variant in which the conversion to a crat makes a new crat.
ConversionCall_locks(cls) ==
  IF cls = "ReadAccess" THEN "rdlock" ELSE "scope"

\* The member function of the mutex that the conversion of a reference to a
\* reference to the base of cls calls: none,
\*   return reinterpret_cast<ConstReadAccess<...> const&>(
\*       static_cast<ConstReadAccess<UNLOCKED> const&>(*this));
ConversionCall(cls) == "scope"

\* Thread t passes its innermost object, a wat or a rat, by reference to a
\* function that takes a reference to the base class:
\*   func_read_const(write_access);
PassByReference(t) ==
  /\ prog = "tokens" /\ phase[t] = "scope" /\ pc[t] = "idle"
  /\ tokens[t] # <<>> /\ Top(t).alive
  /\ Top(t).view \in {"WriteAccess", "ReadAccess"}
  /\ tokens' = [tokens EXCEPT ![t][Len(tokens[t])].view = BaseView(@)]
  /\ phase' = [phase EXCEPT ![t] = ConversionCall(Top(t).view)]
  /\ UNCHANGED tokFrame

\* The function that uses the innermost object of thread t through a
\* reference to a base class returns.
Return(t) ==
  /\ prog = "tokens" /\ phase[t] = "scope" /\ pc[t] = "idle"
  /\ tokens[t] # <<>> /\ Top(t).view # Top(t).cls
  /\ tokens' = [tokens EXCEPT ![t][Len(tokens[t])].view = Top(t).cls]
  /\ phase' = phase
  /\ UNCHANGED tokFrame

\* A variant in which the destructor of a w2rCarry calls nothing.
DestructorCall_carry_keeps(tok) ==
  CASE tok.cls # "Write2ReadCarry" /\ tok.m_state = "readlocked" -> "rdunlock"
    [] tok.cls # "Write2ReadCarry" /\ tok.m_state = "writelocked" -> "wrunlock"
    [] tok.cls # "Write2ReadCarry" /\ tok.m_state = "read2writelocked" ->
         "wr2rdlock"
    [] OTHER -> "scope"

\* A variant in which the destructor of a promoted wat releases the lock.
DestructorCall_releases(tok) ==
  CASE tok.cls = "Write2ReadCarry" /\ tok.m_used -> "rdunlock"
    [] tok.cls # "Write2ReadCarry" /\ tok.m_state = "readlocked" -> "rdunlock"
    [] tok.cls # "Write2ReadCarry"
         /\ tok.m_state \in {"writelocked", "read2writelocked"} -> "wrunlock"
    [] OTHER -> "scope"

\* A variant in which the destructor takes write2writelocked for
\* read2writelocked.
DestructorCall_downgrades(tok) ==
  CASE tok.cls = "Write2ReadCarry" /\ tok.m_used -> "rdunlock"
    [] tok.cls # "Write2ReadCarry" /\ tok.m_state = "readlocked" -> "rdunlock"
    [] tok.cls # "Write2ReadCarry" /\ tok.m_state = "writelocked" -> "wrunlock"
    [] tok.cls # "Write2ReadCarry"
         /\ tok.m_state \in {"read2writelocked", "write2writelocked"} ->
         "wr2rdlock"
    [] OTHER -> "scope"

\* The member function of the mutex that the destructor of tok calls.
\* ~ConstReadAccess():
\*   if (m_state == readlocked) mutex().rdunlock();
\*   else if (m_state == writelocked) mutex().wrunlock();
\*   else if (m_state == read2writelocked) mutex().wr2rdlock();
\* ~Write2ReadCarry(): if (m_used) m_unlocked.mutex().rdunlock();
DestructorCall(tok) ==
  CASE tok.cls = "Write2ReadCarry" /\ tok.m_used -> "rdunlock"
    [] tok.cls # "Write2ReadCarry" /\ tok.m_state = "readlocked" -> "rdunlock"
    [] tok.cls # "Write2ReadCarry" /\ tok.m_state = "writelocked" -> "wrunlock"
    [] tok.cls # "Write2ReadCarry" /\ tok.m_state = "read2writelocked" ->
         "wr2rdlock"
    [] OTHER -> "scope"

\* WriteAccess(ReadAccess<UNLOCKED>& access) after its call of rd2wrlock:
\*   const_cast<state_type&>(this->m_state) = read2writelocked;
\* or, when rd2wrlock threw, the destructor of the base class, which runs
\* with the m_state that the base class was initialised with; the exception
\* leaves the constructor.
WriteAccess_Promoted(t) ==
  /\ prog = "tokens" /\ phase[t] = "rd2wrlock_end" /\ pc[t] = "idle"
  /\ tokens' =
       IF res[t] = "DeadlockAvoided"
         THEN [tokens EXCEPT ![t] = SubSeq(@, 1, Len(@) - 1)]
         ELSE [tokens EXCEPT ![t][Len(tokens[t])] =
                 [@ EXCEPT !.m_state = "read2writelocked", !.alive = TRUE]]
  /\ phase' = [phase EXCEPT ![t] = IF res[t] = "DeadlockAvoided"
                                     THEN DestructorCall(Top(t))
                                     ELSE "scope"]
  /\ UNCHANGED tokFrame

\* The innermost object of thread t leaves its scope.
Destruct(t) ==
  /\ prog = "tokens" /\ phase[t] = "scope" /\ pc[t] = "idle"
  /\ tokens[t] # <<>> /\ Top(t).view = Top(t).cls
  /\ tokens' = [tokens EXCEPT ![t] = SubSeq(@, 1, Len(@) - 1)]
  /\ phase' = [phase EXCEPT ![t] = DestructorCall(Top(t))]
  /\ UNCHANGED tokFrame

-----------------------------------------------------------------------------
(***************************************************************************)
(* The object tracker (ObjectTracker.h, TrackedObject.h).                  *)
(*                                                                         *)
(* prog = "tracker": the program of the example,                           *)
(*   Node node("hello");                                                   *)
(*   std::weak_ptr<NodeTracker> node_tracker = node;                       *)
(*   Node node2(std::move(node));                                          *)
(*   auto node_r{node_tracker.lock()->tracked_rat()};                      *)
(* in which the thread Owner moves node to node2 and destroys the objects, *)
(* and every other thread has a copy of node_tracker and calls             *)
(* tracked_rat() or tracked_wat() through it, at most MaxTracked times.    *)
(*                                                                         *)
(* The mutex of the tracker (an AIReadWriteSpinLock) and the policy        *)
(* mutexes of node and node2 are there by what they grant: a record of     *)
(* the writer w and of the set r of readers.  A thread that asks for a     *)
(* lock is at a label of its own until the lock is granted.                *)
(***************************************************************************)
\* The number of calls of tracked_rat() and tracked_wat() of a thread.
MaxTracked == 1

\* The thread that owns node and node2.
Owner == NThreads

Objects == {"node", "node2"}

Unlocked == [w |-> NoThread, r |-> {}]

\* What rdlock() and wrlock() wait for.
CanRead(m) == m.w = NoThread
CanWrite(m) == m.w = NoThread /\ m.r = {}

NoAccess == [kind |-> "none", m_base |-> "nullptr", mutex |-> "nullptr",
             s |-> "", after |-> FALSE]

trkFrame == <<lock, prog, phase, hold, res, slVars, rwVars, testVars, tokVars,
              mqVars,
   utilVars>>

\* A thread goes from label `from' to label `to'.
Jump(t, from, to) ==
  /\ prog = "tracker" /\ pc[t] = from
  /\ pc' = [pc EXCEPT ![t] = to]

\* The tracker lives as long as a shared_ptr to it does: tracker_ of an
\* object, or the result of node_tracker.lock() in a thread.
TrackerAlive ==
  \/ \E o \in Objects : tracker_[o]
  \/ \E t \in Threads : pc[t] \in {"tr_rdlock", "tr_ctor", "tr_lock_data",
                                   "tr_ret"}

\* The tracker points to an object that is there.
Tracks ==
  /\ tracked_unlocked_ptr_.m_base # "nullptr"
  /\ object[tracked_unlocked_ptr_.m_base] \in {"alive", "moved"}

\* The move constructor of node2 has returned.
MoveCompleted ==
  object["node2"] # "none" /\ object["node"] \in {"moved", "dead"}

\* A variant in which the tracker keeps the mutex of the moved object.
mutex_of_orig(this) == "node"

\* auto& mutex = this->mutex();
mutex(this) == this

\* A variant in which the destructor leaves the pointer of the tracker.
Tracked_keeps(label) == "node2"

\* The argument of set_tracked_unlocked: `this' in the move constructor,
\* nullptr in the destructor.
Tracked(label) == IF label = "mv_set_base" THEN "node2" ELSE "nullptr"

\* UnlockedTrackedObject(UnlockedTrackedObject&& orig, ARGS&&... args) :
\*   Unlocked<...>(std::move(orig.do_wrlock()), this->noLock, ...)
\* The call of orig.do_wrlock().
MoveConstruct(t) ==
  /\ t = Owner
  /\ object["node"] = "alive" /\ object["node2"] = "none"
  /\ Jump(t, "idle", "mv_do_wrlock")
  /\ UNCHANGED <<iter, trkVars, trkFrame>>

\* orig.do_wrlock() returns: the mutex of orig is write-locked.
do_wrlock(t) ==
  /\ CanWrite(data_mutex["node"])
  /\ Jump(t, "mv_do_wrlock", "mv_base")
  /\ data_mutex' = [data_mutex EXCEPT !["node"].w = t]
  /\ UNCHANGED <<iter, object, tracker_, s_, tracker_mutex,
                 tracked_unlocked_ptr_, node_r, trkFrame>>

\* TrackedObject(TrackedObject&& orig) : tracker_(std::move(orig.tracker_))
\* and its call of tracker_->set_tracked_unlocked(..., this); the new object
\* has a mutex of its own.
TrackedObject_Move(t) ==
  /\ Jump(t, "mv_base", "mv_set_wrlock")
  /\ tracker_' = [tracker_ EXCEPT !["node"] = FALSE, !["node2"] = TRUE]
  /\ object' = [object EXCEPT !["node2"] = "alive"]
  /\ UNCHANGED <<iter, s_, data_mutex, tracker_mutex, tracked_unlocked_ptr_,
                 node_r, trkFrame>>

\* typename tracked_unlocked_ptr_type::wat
\*   tracked_unlocked_ptr_w(tracked_unlocked_ptr_);
\* in set_tracked_unlocked and in update_mutex_pointer: the tracker is
\* write-locked.
Tracker_wat(t) ==
  /\ CanWrite(tracker_mutex)
  /\ \/ Jump(t, "mv_set_wrlock", "mv_set_base")
     \/ Jump(t, "mv_upd_wrlock", "mv_upd_ptr")
     \/ Jump(t, "dt_set_wrlock", "dt_set_base")
  /\ tracker_mutex' = [tracker_mutex EXCEPT !.w = t]
  /\ UNCHANGED <<iter, object, tracker_, s_, data_mutex,
                 tracked_unlocked_ptr_, node_r, trkFrame>>

\* tracked_unlocked_ptr_w->set_tracked_unlocked(tracked_unlocked_ptr);
\*   this->m_base = base;
set_tracked_unlocked(t) ==
  /\ \/ Jump(t, "mv_set_base", "mv_set_wrunlock")
     \/ Jump(t, "dt_set_base", "dt_set_wrunlock")
  /\ tracked_unlocked_ptr_' =
       [tracked_unlocked_ptr_ EXCEPT !.m_base = Tracked(pc[t])]
  /\ UNCHANGED <<iter, object, tracker_, s_, data_mutex, tracker_mutex,
                 node_r, trkFrame>>

\* tracked_unlocked_ptr_w->update_mutex_pointer(mutex_ptr);
\*   this->m_read_write_mutex_ptr = mutex_ptr;
update_mutex_pointer(t) ==
  /\ Jump(t, "mv_upd_ptr", "mv_upd_wrunlock")
  /\ tracked_unlocked_ptr_' =
       [tracked_unlocked_ptr_ EXCEPT !.m_read_write_mutex_ptr = mutex("node2")]
  /\ UNCHANGED <<iter, object, tracker_, s_, data_mutex, tracker_mutex,
                 node_r, trkFrame>>

\* The destructor of tracked_unlocked_ptr_w: the tracker is unlocked.
Tracker_wat_Destruct(t) ==
  /\ \/ Jump(t, "mv_set_wrunlock", "mv_data")
     \/ Jump(t, "mv_upd_wrunlock", "mv_do_wrunlock")
     \/ Jump(t, "dt_set_wrunlock", "dt_end")
  /\ tracker_mutex' = [tracker_mutex EXCEPT !.w = NoThread]
  /\ UNCHANGED <<iter, object, tracker_, s_, data_mutex,
                 tracked_unlocked_ptr_, node_r, trkFrame>>

\* The move constructor of the members of the tracked object: s_ of the new
\* object is s_ of orig, whose s_ is left in an unspecified state.  Then
\* the body of the move constructor of UnlockedTrackedObject calls
\*   this->tracker_->update_mutex_pointer(&mutex);
MoveData(t) ==
  /\ Jump(t, "mv_data", "mv_upd_wrlock")
  /\ \E left \in {"", "hello"} :
       s_' = [s_ EXCEPT !["node2"] = s_["node"], !["node"] = left]
  /\ UNCHANGED <<iter, object, tracker_, data_mutex, tracker_mutex,
                 tracked_unlocked_ptr_, node_r, trkFrame>>

\* orig.do_wrunlock();
do_wrunlock(t) ==
  /\ Jump(t, "mv_do_wrunlock", "idle")
  /\ data_mutex' = [data_mutex EXCEPT !["node"].w = NoThread]
  /\ object' = [object EXCEPT !["node"] = "moved"]
  /\ UNCHANGED <<iter, tracker_, s_, tracker_mutex, tracked_unlocked_ptr_,
                 node_r, trkFrame>>

\* The destructor of the tracked object o, which no access object refers to
\* (~Unlocked: assert(m_ref == 0)): the policy mutex is destroyed, and then
\* ~TrackedObject():
\*   if (tracker_) tracker_->set_tracked_unlocked({}, nullptr);
Destroy(t, o) ==
  /\ t = Owner
  /\ object[o] \in {"alive", "moved"}
  /\ data_mutex[o] = Unlocked
  /\ Jump(t, "idle", IF tracker_[o] THEN "dt_set_wrlock" ELSE "idle")
  /\ object' = [object EXCEPT ![o] = IF tracker_[o] THEN "dying" ELSE "dead"]
  /\ tracker_' = tracker_
  /\ UNCHANGED <<iter, s_, data_mutex, tracker_mutex, tracked_unlocked_ptr_,
                 node_r, trkFrame>>

\* The end of ~TrackedObject: the shared_ptr tracker_ is destroyed, and the
\* object is gone.
TrackedObject_Destructed(t) ==
  /\ Jump(t, "dt_end", "idle")
  /\ object' = [o \in Objects |->
                  IF object[o] = "dying" THEN "dead" ELSE object[o]]
  /\ tracker_' = [o \in Objects |-> tracker_[o] /\ object[o] # "dying"]
  /\ UNCHANGED <<iter, s_, data_mutex, tracker_mutex, tracked_unlocked_ptr_,
                 node_r, trkFrame>>

\* node_tracker.lock()->tracked_rat(), or ->tracked_wat(): the weak_ptr
\* gives a shared_ptr while the tracker lives.  The call is after the move
\* if the move constructor has returned.
tracked_access(t, kind) ==
  /\ t # Owner /\ iter[t] < MaxTracked
  /\ TrackerAlive
  /\ Jump(t, "idle", "tr_rdlock")
  /\ node_r' = [node_r EXCEPT ![t] =
                  [NoAccess EXCEPT !.kind = kind,
                                   !.after = MoveCompleted]]
  /\ UNCHANGED <<iter, object, tracker_, s_, data_mutex, tracker_mutex,
                 tracked_unlocked_ptr_, trkFrame>>

\* typename tracked_unlocked_ptr_type::rat
\*   tracked_unlocked_ptr_r(tracked_unlocked_ptr_);
\* the tracker is read-locked.
Tracker_rat(t) ==
  /\ CanRead(tracker_mutex)
  /\ Jump(t, "tr_rdlock", "tr_ctor")
  /\ tracker_mutex' = [tracker_mutex EXCEPT !.r = @ \cup {t}]
  /\ UNCHANGED <<iter, object, tracker_, s_, data_mutex,
                 tracked_unlocked_ptr_, node_r, trkFrame>>

\* return rat{const_cast<UnlockedBaseTrackedObject&>(*tracked_unlocked_ptr_r)};
\* the constructor of the access object reads the mutex pointer of the
\* tracker and calls rdlock() or wrlock() of that mutex.
Access_Construct(t) ==
  /\ Jump(t, "tr_ctor", "tr_lock_data")
  /\ node_r' = [node_r EXCEPT
       ![t].m_base = tracked_unlocked_ptr_.m_base,
       ![t].mutex = tracked_unlocked_ptr_.m_read_write_mutex_ptr]
  /\ UNCHANGED <<iter, object, tracker_, s_, data_mutex, tracker_mutex,
                 tracked_unlocked_ptr_, trkFrame>>

\* rdlock() or wrlock() of the data mutex returns.
Access_Locked(t) ==
  /\ pc[t] = "tr_lock_data"
  /\ object[node_r[t].mutex] \in {"alive", "moved"}
  /\ IF node_r[t].kind = "rat"
       THEN /\ CanRead(data_mutex[node_r[t].mutex])
            /\ data_mutex' = [data_mutex EXCEPT ![node_r[t].mutex].r = @ \cup {t}]
       ELSE /\ CanWrite(data_mutex[node_r[t].mutex])
            /\ data_mutex' = [data_mutex EXCEPT ![node_r[t].mutex].w = t]
  /\ Jump(t, "tr_lock_data", "tr_ret")
  /\ UNCHANGED <<iter, object, tracker_, s_, tracker_mutex,
                 tracked_unlocked_ptr_, node_r, trkFrame>>

\* rdlock() or wrlock() of a mutex that has been destroyed: the call does
\* not return, or the thread goes on without a lock.
Access_Destroyed(t) ==
  /\ pc[t] = "tr_lock_data"
  /\ object[node_r[t].mutex] \in {"dying", "dead"}
  /\ \/ Jump(t, "tr_lock_data", "crashed")
     \/ Jump(t, "tr_lock_data", "tr_ret")
  /\ UNCHANGED <<iter, trkVars, trkFrame>>

\* tracked_rat() returns: the destructor of tracked_unlocked_ptr_r unlocks
\* the tracker.
Tracker_rat_Destruct(t) ==
  /\ Jump(t, "tr_ret", "tr_use")
  /\ tracker_mutex' = [tracker_mutex EXCEPT !.r = @ \ {t}]
  /\ UNCHANGED <<iter, object, tracker_, s_, data_mutex,
                 tracked_unlocked_ptr_, node_r, trkFrame>>

\* node_r->s(): operator-> reads m_base of the tracker.  The use of a null
\* pointer, or of a pointer to an object under destruction, ends the thread
\* or yields any string.
Access_Use(t) ==
  /\ \/ /\ Tracks
        /\ Jump(t, "tr_use", "tr_end")
        /\ node_r' = [node_r EXCEPT ![t].s = s_[tracked_unlocked_ptr_.m_base]]
     \/ /\ ~Tracks
        /\ \/ Jump(t, "tr_use", "crashed") /\ node_r' = node_r
           \/ /\ Jump(t, "tr_use", "tr_end")
              /\ \E str \in {"", "hello"} :
                   node_r' = [node_r EXCEPT ![t].s = str]
  /\ UNCHANGED <<iter, object, tracker_, s_, data_mutex, tracker_mutex,
                 tracked_unlocked_ptr_, trkFrame>>

\* The destructor of node_r: rdunlock() or wrunlock() of the mutex that the
\* tracker points to.
Access_Destruct(t) ==
  /\ Jump(t, "tr_end", "idle")
  /\ iter' = [iter EXCEPT ![t] = @ + 1]
  /\ data_mutex' =
       [o \in Objects |->
          IF o = tracked_unlocked_ptr_.m_read_write_mutex_ptr
            THEN [w |-> IF data_mutex[o].w = t THEN NoThread
                        ELSE data_mutex[o].w,
                  r |-> data_mutex[o].r \ {t}]
            ELSE data_mutex[o]]
  /\ UNCHANGED <<object, tracker_, s_, tracker_mutex, tracked_unlocked_ptr_,
                 node_r, trkFrame>>

-----------------------------------------------------------------------------
(***************************************************************************)
(* MpscQueue (aireadwritemutex.h).                                         *)
(*                                                                         *)
(* prog = "queue": the threads of Producers call push, each with MaxPush   *)
(* nodes of its own, one after the other; the thread Consumer calls pop    *)
(* again and again.  A pointer to a node is the pair of its producer and   *)
(* its number; one step is one load, store or exchange of an atomic.       *)
(***************************************************************************)
\* The number of nodes that a producer pushes.
MaxPush == 2

Producers == 1..(NThreads - 1)
Consumer == NThreads

nullptr == <<0, 0>>
m_stub == <<0, 1>>
Nodes == Producers \X (1..MaxPush)

mqFrame == <<lock, prog, phase, hold, res, slVars, rwVars, testVars, tokVars,
             trkVars, utilVars>>

\* The nodes with which a producer has exchanged m_head.
Pushed ==
  {n \in Nodes :
     /\ n[2] <= iter[n[1]]
     /\ ~(n = node[n[1]] /\ pc[n[1]] \in {"push_store", "push_xchg"})}

Popped == {popped[i] : i \in 1..Len(popped)}

\* The nodes that the queue holds.
InQueue == Pushed \ Popped

\* A push is in progress: a producer has exchanged m_head and has not yet
\* stored prev->m_next.
PushInProgress == \E p \in Producers : pc[p] = "push_fix"

Seen ==
  (IF InQueue = {} THEN {"empty"} ELSE {}) \cup
  (IF PushInProgress THEN {"pushing"} ELSE {})

\* pop_saw collects Seen over the states of a call of pop.
Observe ==
  pop_saw' = IF pc'[Consumer] = "idle" THEN {} ELSE pop_saw \cup Seen'

\* A variant in which pop does not know m_stub.
IsStub_never(n) == FALSE

\* if (tail == &m_stub)
IsStub(n) == n = m_stub

\* A variant in which pop leaves m_tail where it is.
AfterRemove_stays(tl, nx) == tl

\* m_tail = next; of "Remove node and return it".
AfterRemove(tl, nx) == nx

\* A variant in which pop takes m_head for changed.
HeadUnchanged_never(tl, hd) == FALSE

\* if (tail != head) return nullptr;
HeadUnchanged(tl, hd) == tl = hd

\* A producer calls push(node) with its next node.
push(t) ==
  /\ prog = "queue" /\ t \in Producers
  /\ pc[t] = "idle" /\ iter[t] < MaxPush
  /\ iter' = [iter EXCEPT ![t] = @ + 1]
  /\ node' = [node EXCEPT ![t] = <<t, iter[t] + 1>>]
  /\ pc' = [pc EXCEPT ![t] = "push_store"]
  /\ UNCHANGED <<m_head, m_tail, m_next, prev, tail, next, popped, mqFrame>>
  /\ Observe

\* node->m_next.store(nullptr);
push_store(t) ==
  /\ prog = "queue" /\ pc[t] = "push_store"
  /\ m_next' = [m_next EXCEPT ![node[t]] = nullptr]
  /\ pc' = [pc EXCEPT ![t] = "push_xchg"]
  /\ UNCHANGED <<iter, m_head, m_tail, node, prev, tail, next, popped, mqFrame>>
  /\ Observe

\* MpscNode* prev = std::atomic_exchange(&m_head, node);
push_exchange(t) ==
  /\ prog = "queue" /\ pc[t] = "push_xchg"
  /\ prev' = [prev EXCEPT ![t] = m_head]
  /\ m_head' = node[t]
  /\ pc' = [pc EXCEPT ![t] = "push_fix"]
  /\ UNCHANGED <<iter, m_tail, m_next, node, tail, next, popped, mqFrame>>
  /\ Observe

\* prev->m_next.store(node); push returns, to the producer or into pop.
push_fix(t) ==
  /\ prog = "queue" /\ pc[t] = "push_fix"
  /\ m_next' = [m_next EXCEPT ![prev[t]] = node[t]]
  /\ pc' = [pc EXCEPT ![t] = IF t = Consumer THEN "pop_reload" ELSE "idle"]
  /\ UNCHANGED <<iter, m_head, m_tail, node, prev, tail, next, popped, mqFrame>>
  /\ Observe

\* The consumer calls pop():  MpscNode* tail = m_tail;
pop(t) ==
  /\ prog = "queue" /\ t = Consumer /\ pc[t] = "idle"
  /\ tail' = m_tail
  /\ pc' = [pc EXCEPT ![t] = "pop_next"]
  /\ UNCHANGED <<iter, m_head, m_tail, m_next, node, prev, next, popped,
                 mqFrame>>
  /\ Observe

\* MpscNode* next = tail->m_next.load();  and, after the stub is skipped,
\* next = next->m_next.load();
pop_next(t) ==
  /\ prog = "queue" /\ pc[t] \in {"pop_next", "pop_next2"}
  /\ next' = m_next[tail]
  /\ pc' = [pc EXCEPT ![t] = IF pc[t] = "pop_next" THEN "pop_stub"
                             ELSE "pop_check"]
  /\ UNCHANGED <<iter, m_head, m_tail, m_next, node, prev, tail, popped,
                 mqFrame>>
  /\ Observe

\* if (tail == &m_stub)
\* { if (nullptr == next) return nullptr;  m_tail = next;  tail = next; ... }
pop_stub(t) ==
  /\ prog = "queue" /\ pc[t] = "pop_stub"
  /\ IF IsStub(tail)
       THEN IF next = nullptr
              THEN /\ pc' = [pc EXCEPT ![t] = "pop_null"]
                   /\ UNCHANGED <<m_tail, tail>>
              ELSE /\ m_tail' = next
                   /\ tail' = next
                   /\ pc' = [pc EXCEPT ![t] = "pop_next2"]
       ELSE /\ pc' = [pc EXCEPT ![t] = "pop_check"]
            /\ UNCHANGED <<m_tail, tail>>
  /\ UNCHANGED <<iter, m_head, m_next, node, prev, next, popped, mqFrame>>
  /\ Observe

\* if (next) { m_tail = next; return tail; }
pop_check(t) ==
  /\ prog = "queue" /\ pc[t] = "pop_check"
  /\ IF next # nullptr
       THEN /\ m_tail' = AfterRemove(tail, next)
            /\ popped' = Append(popped, tail)
            /\ pc' = [pc EXCEPT ![t] = "idle"]
       ELSE /\ pc' = [pc EXCEPT ![t] = "pop_head"]
            /\ UNCHANGED <<m_tail, popped>>
  /\ UNCHANGED <<iter, m_head, m_next, node, prev, tail, next, mqFrame>>
  /\ Observe

\* MpscNode* head = m_head.load();
\* if (tail != head) return nullptr;
\* push(&m_stub);
pop_head(t) ==
  /\ prog = "queue" /\ pc[t] = "pop_head"
  /\ IF HeadUnchanged(tail, m_head)
       THEN /\ node' = [node EXCEPT ![t] = m_stub]
            /\ pc' = [pc EXCEPT ![t] = "push_store"]
       ELSE /\ pc' = [pc EXCEPT ![t] = "pop_null"]
            /\ node' = node
  /\ UNCHANGED <<iter, m_head, m_tail, m_next, prev, tail, next, popped,
                 mqFrame>>
  /\ Observe

\* next = tail->m_next.load();
\* if (next) { m_tail = next; return tail; }
\* return nullptr;
pop_reload(t) ==
  /\ prog = "queue" /\ pc[t] = "pop_reload"
  /\ next' = m_next[tail]
  /\ IF m_next[tail] # nullptr
       THEN /\ m_tail' = AfterRemove(tail, m_next[tail])
            /\ popped' = Append(popped, tail)
            /\ pc' = [pc EXCEPT ![t] = "idle"]
       ELSE /\ pc' = [pc EXCEPT ![t] = "pop_null"]
            /\ UNCHANGED <<m_tail, popped>>
  /\ UNCHANGED <<iter, m_head, m_next, node, prev, tail, mqFrame>>
  /\ Observe

\* pop has returned nullptr to the consumer.
pop_null(t) ==
  /\ prog = "queue" /\ pc[t] = "pop_null"
  /\ pc' = [pc EXCEPT ![t] = "idle"]
  /\ UNCHANGED <<iter, m_head, m_tail, m_next, node, prev, tail, next, popped,
                 mqFrame>>
  /\ Observe

-----------------------------------------------------------------------------
(***************************************************************************)
(* The specifications.                                                     *)
(***************************************************************************)
SL_Call(t) ==
  \/ SL_rdlock(t)
  \/ SL_rdunlock(t)
  \/ SL_wrlock(t)
  \/ SL_wrunlock(t)
  \/ SL_wr2rdlock(t)
  \/ SL_rd2wrlock(t)
  \/ SL_rd2wryield(t)

\* A step inside a call.
SL_Step(t) ==
  \/ do_transition(t)
  \/ rdlock_blocked(t)
  \/ wrlock_blocked(t)
  \/ rd2wrlock_blocked(t)
  \/ rd2wryield_blocked(t)

RW_Call(t) ==
  \/ RW_rdlock(t)
  \/ RW_rdunlock(t)
  \/ RW_wrlock(t)
  \/ RW_wrunlock(t)
  \/ RW_wr2rdlock(t)
  \/ RW_rd2wrlock(t)
  \/ RW_rd2wryield(t)

\* A step inside a call, but for those of wr2rdlock.
RW_StepRun(t) ==
  \/ RW_Lock(t)
  \/ RWR_Pred(t)
  \/ RWU_Body(t)
  \/ RWU_Notify(t)
  \/ RWW_Enter(t)
  \/ RWW_Pred(t)
  \/ RWC_Enter(t)
  \/ RWC_Pred(t)
  \/ RWY_Pred(t)
  \/ RWX_Body(t)
  \/ RWX_Notify(t)

RW_Step(t) ==
  \/ RW_StepRun(t)
  \/ RWD_Body(t)
  \/ RWD_Notify(t)

-----------------------------------------------------------------------------
(***************************************************************************)
(* Semaphore: a token counter in a futex word.  The low bits of m_word     *)
(* are the number of available tokens, the high bits the number of         *)
(* threads that are (about to be) blocked.  The fields are narrower than   *)
(* in the source, the arithmetic on the word is the same.                  *)
(*                                                                         *)
(* A thread calls post(n), wait() and try_wait(), MaxCalls calls in all;   *)
(* iter[t] counts them.  A thread whose phase is "producer" only posts,    *)
(* one whose phase is "consumer" only calls wait and try_wait.  The labels *)
(* sem_* are the positions inside the calls; a thread at "sem_blocked"     *)
(* sleeps in the futex.                                                    *)
(***************************************************************************)
MaxCalls == 2
MaxPost == 2
MaxInitial == 1

nwaiters_shift == 4
one_waiter == Pow2(nwaiters_shift)
tokens_mask == one_waiter - 1

\* word & tokens_mask, and word >> nwaiters_shift.
ntokens(x) == x % one_waiter
nwaiters(x) == x \div one_waiter

semFrame == <<lock, prog, phase, hold, slVars, rwVars, testVars, tokVars,
              trkVars, mqVars, amVars, psVars>>

\* Faulty: an exchange that does not compare.
compare_exchange_weak_blind(expected) == TRUE

\* m_word.compare_exchange_weak(word, desired): whether m_word still holds
\* the expected value.  (A spurious failure reloads the same value and
\* changes nothing.)
compare_exchange_weak(expected) == m_word = expected

\* Faulty: post wakes nobody.
MustWake_never(prev_word) == FALSE

\* if (nwaiters > 0), with nwaiters = prev_word >> nwaiters_shift
MustWake(prev_word) == nwaiters(prev_word) > 0

\* The threads that sleep in FUTEX_WAIT.
Sleepers == {t \in Threads : pc[t] = "sem_blocked"}

\* The thread leaves the call it is in (l = "idle") or goes on to label l,
\* and the sleepers of `woken' return from FUTEX_WAIT.
SemGoto(t, l, woken) ==
  pc' = [u \in Threads |->
           IF u = t THEN l ELSE IF u \in woken THEN "sem_reload" ELSE pc[u]]

\* A token is taken.
Take == account' = [account EXCEPT !.taken = @ + 1]

\* post(n): uint64_t prev_word = m_word.fetch_add(n); the ASSERT on the
\* overflow of the tokens is the caller's obligation.
post(t) ==
  /\ prog = "semaphore" /\ phase[t] # "consumer"
  /\ pc[t] = "idle" /\ iter[t] < MaxCalls
  /\ \E k \in 1..MaxPost :
       /\ ntokens(m_word) + k <= tokens_mask
       /\ m_word' = m_word + k
       /\ post_n' = [post_n EXCEPT ![t] = IF MustWake(m_word) THEN k ELSE 0]
       /\ account' = [account EXCEPT !.posted = @ + k]
  /\ SemGoto(t, IF MustWake(m_word) THEN "sem_wake" ELSE "idle", {})
  /\ iter' = [iter EXCEPT ![t] = @ + 1]
  /\ UNCHANGED <<word, res, semFrame>>

\* Futex<uint64_t>::wake(n): up to n of the sleeping threads wake up.
Futex_wake(t) ==
  /\ pc[t] = "sem_wake"
  /\ \E woken \in SUBSET Sleepers :
       /\ Cardinality(woken) =
            (IF post_n[t] < Cardinality(Sleepers)
               THEN post_n[t] ELSE Cardinality(Sleepers))
       /\ SemGoto(t, "idle", woken)
  /\ post_n' = [post_n EXCEPT ![t] = 0]
  /\ UNCHANGED <<m_word, word, account, iter, res, semFrame>>

\* wait(): uint64_t word = m_word.load();
wait(t) ==
  /\ prog = "semaphore" /\ phase[t] # "producer"
  /\ pc[t] = "idle" /\ iter[t] < MaxCalls
  /\ word' = [word EXCEPT ![t] = m_word]
  /\ UNCHANGED account
  /\ SemGoto(t, "sem_fast", {})
  /\ iter' = [iter EXCEPT ![t] = @ + 1]
  /\ UNCHANGED <<m_word, post_n, res, semFrame>>

\* An iteration of the first loop of wait:
\*   if (ntokens == 0) break;
\*   if (m_word.compare_exchange_weak(word, word - 1)) return;
wait_fast(t) ==
  /\ pc[t] = "sem_fast"
  /\ IF ntokens(word[t]) = 0
       THEN /\ SemGoto(t, "sem_add", {})
            /\ UNCHANGED <<m_word, word, account>>
       ELSE IF compare_exchange_weak(word[t])
         THEN /\ m_word' = word[t] - 1
              /\ Take
              /\ SemGoto(t, "idle", {})
              /\ word' = [word EXCEPT ![t] = 0]
         ELSE /\ word' = [word EXCEPT ![t] = m_word]
              /\ UNCHANGED <<m_word, pc, account>>
  /\ UNCHANGED <<post_n, iter, res, semFrame>>

\* word = m_word.fetch_add(one_waiter) + one_waiter;
wait_add(t) ==
  /\ pc[t] = "sem_add"
  /\ m_word' = m_word + one_waiter
  /\ word' = [word EXCEPT ![t] = m_word + one_waiter]
  /\ SemGoto(t, "sem_loop", {})
  /\ UNCHANGED <<post_n, account, iter, res, semFrame>>

\* An iteration of the second loop of wait:
\*   if (ntokens == 0) { Futex<uint64_t>::wait(ntokens) ... }
\*   else if (m_word.compare_exchange_weak(word, word - one_waiter - 1)) break;
wait_loop(t) ==
  /\ pc[t] = "sem_loop"
  /\ IF ntokens(word[t]) = 0
       THEN /\ SemGoto(t, "sem_futex", {})
            /\ UNCHANGED <<m_word, word, account>>
       ELSE IF compare_exchange_weak(word[t])
         THEN /\ m_word' = word[t] - one_waiter - 1
              /\ Take
              /\ SemGoto(t, "idle", {})
              /\ word' = [word EXCEPT ![t] = 0]
         ELSE /\ word' = [word EXCEPT ![t] = m_word]
              /\ UNCHANGED <<m_word, pc, account>>
  /\ UNCHANGED <<post_n, iter, res, semFrame>>

\* Futex<uint64_t>::wait(0): the thread sleeps if the tokens are still 0,
\* and returns at once with EAGAIN if they are not.
Futex_wait(t) ==
  /\ pc[t] = "sem_futex"
  /\ SemGoto(t, IF ntokens(m_word) = 0 THEN "sem_blocked" ELSE "sem_reload", {})
  /\ UNCHANGED <<m_word, word, post_n, account, iter, res, semFrame>>

\* FUTEX_WAIT returns without a wake: interrupted by a signal (the loop
\* around Futex<uint64_t>::wait calls it again) or woken spuriously.
Futex_interrupted(t) ==
  /\ pc[t] = "sem_blocked"
  /\ \E l \in {"sem_futex", "sem_reload"} : SemGoto(t, l, {})
  /\ UNCHANGED <<m_word, word, post_n, account, iter, res, semFrame>>

\* word = m_word.load(); after Futex<uint64_t>::wait has returned
wait_reload(t) ==
  /\ pc[t] = "sem_reload"
  /\ word' = [word EXCEPT ![t] = m_word]
  /\ SemGoto(t, "sem_loop", {})
  /\ UNCHANGED <<m_word, post_n, account, iter, res, semFrame>>

\* try_wait(): uint64_t word = m_word.load();
try_wait(t) ==
  /\ prog = "semaphore" /\ phase[t] # "producer"
  /\ pc[t] = "idle" /\ iter[t] < MaxCalls
  /\ word' = [word EXCEPT ![t] = m_word]
  /\ SemGoto(t, "sem_try", {})
  /\ iter' = [iter EXCEPT ![t] = @ + 1]
  /\ res' = [res EXCEPT ![t] = "none"]
  /\ UNCHANGED <<m_word, post_n, account, semFrame>>

\* An iteration of the loop of try_wait:
\*   if (ntokens == 0) return false;
\*   while (!m_word.compare_exchange_weak(word, word - 1)); return true;
try_wait_loop(t) ==
  /\ pc[t] = "sem_try"
  /\ IF ntokens(word[t]) = 0
       THEN /\ SemGoto(t, "idle", {})
            /\ res' = [res EXCEPT ![t] = "false"]
            /\ word' = [word EXCEPT ![t] = 0]
            /\ UNCHANGED <<m_word, account>>
       ELSE IF compare_exchange_weak(word[t])
         THEN /\ m_word' = word[t] - 1
              /\ Take
              /\ SemGoto(t, "idle", {})
              /\ res' = [res EXCEPT ![t] = "true"]
              /\ word' = [word EXCEPT ![t] = 0]
         ELSE /\ word' = [word EXCEPT ![t] = m_word]
              /\ UNCHANGED <<m_word, pc, account, res>>
  /\ UNCHANGED <<post_n, iter, semFrame>>

-----------------------------------------------------------------------------
(***************************************************************************)
(* AIMutex: a std::mutex with the id of the thread that has locked it.     *)
(*                                                                         *)
(* lock = "AIMutex" is the class of AIMutex.h, whose unlock clears m_id    *)
(* and then unlocks m_mutex; lock = "AIMutex_2017" is the earlier class    *)
(* (with self_locked for is_self_locked and a plain m_id), whose unlock    *)
(* unlocks m_mutex and then clears m_id.  lock and try_lock are the same   *)
(* in both.  hold[t] = "mutex" from the return of lock, or of a successful *)
(* try_lock, of thread t until its call of unlock; the labels am_* are the *)
(* positions inside the calls.  A load or store of the plain m_id is one   *)
(* step, as it is for the atomic m_id.                                     *)
(***************************************************************************)
amFrame == <<prog, phase, iter, lock, slVars, rwVars, testVars, tokVars,
             trkVars, mqVars, semVars, psVars>>

\* std::this_thread::get_id()
get_id(t) == t

\* Faulty: unlock leaves the id in place.
thread_id_keeps(t) == get_id(t)

\* std::thread::id(): the id that is no thread's, which unlock of thread t
\* stores.
thread_id(t) == NoThread

AMGoto(t, l) == pc' = [pc EXCEPT ![t] = l]

\* lock(): ASSERT(m_id.load() != std::this_thread::get_id()), which a caller
\* that does not hold the mutex passes.
AIMutex_lock(t) ==
  /\ prog = "mutex" /\ pc[t] = "idle" /\ hold[t] = "none"
  /\ AMGoto(t, "am_lock")
  /\ UNCHANGED <<m_mutex, m_id, hold, res, amFrame>>

\* m_mutex.lock();
AM_Lock(t) ==
  /\ pc[t] = "am_lock"
  /\ m_mutex = NoThread
  /\ m_mutex' = t
  /\ AMGoto(t, "am_store")
  /\ UNCHANGED <<m_id, hold, res, amFrame>>

\* try_lock(): the same ASSERT.
AIMutex_try_lock(t) ==
  /\ prog = "mutex" /\ pc[t] = "idle" /\ hold[t] = "none"
  /\ AMGoto(t, "am_try")
  /\ res' = [res EXCEPT ![t] = "none"]
  /\ UNCHANGED <<m_mutex, m_id, hold, amFrame>>

\* bool success = m_mutex.try_lock(); which may fail whether or not the mutex
\* is locked.
AM_TryLock(t) ==
  /\ pc[t] = "am_try"
  /\ \/ /\ m_mutex = NoThread
        /\ m_mutex' = t
        /\ AMGoto(t, "am_store")
        /\ res' = [res EXCEPT ![t] = "true"]
     \/ /\ AMGoto(t, "idle")
        /\ res' = [res EXCEPT ![t] = "false"]
        /\ UNCHANGED m_mutex
  /\ UNCHANGED <<m_id, hold, amFrame>>

\* m_id.store(std::this_thread::get_id()); and the return of lock or try_lock
AM_Store(t) ==
  /\ pc[t] = "am_store"
  /\ m_id' = get_id(t)
  /\ AMGoto(t, "idle")
  /\ hold' = [hold EXCEPT ![t] = "mutex"]
  /\ UNCHANGED <<m_mutex, res, amFrame>>

\* unlock() of AIMutex.h: m_id.store(std::thread::id());
AIMutex_unlock(t) ==
  /\ prog = "mutex" /\ lock = "AIMutex"
  /\ pc[t] = "idle" /\ hold[t] = "mutex"
  /\ m_id' = thread_id(t)
  /\ AMGoto(t, "am_unlock")
  /\ hold' = [hold EXCEPT ![t] = "none"]
  /\ UNCHANGED <<m_mutex, res, amFrame>>

\* m_mutex.unlock(); in unlock of AIMutex.h
AM_Unlock(t) ==
  /\ pc[t] = "am_unlock"
  /\ m_mutex' = NoThread
  /\ AMGoto(t, "idle")
  /\ UNCHANGED <<m_id, hold, res, amFrame>>

\* unlock() of the earlier class: m_mutex.unlock();
AIMutex_unlock_2017(t) ==
  /\ prog = "mutex" /\ lock = "AIMutex_2017"
  /\ pc[t] = "idle" /\ hold[t] = "mutex"
  /\ m_mutex' = NoThread
  /\ AMGoto(t, "am_clear")
  /\ hold' = [hold EXCEPT ![t] = "none"]
  /\ UNCHANGED <<m_id, res, amFrame>>

\* m_id = std::thread::id(); in unlock of the earlier class
AM_Clear(t) ==
  /\ pc[t] = "am_clear"
  /\ m_id' = thread_id(t)
  /\ AMGoto(t, "idle")
  /\ UNCHANGED <<m_mutex, hold, res, amFrame>>

\* is_self_locked(), and self_locked() of the earlier class: the call.
AIMutex_is_self_locked(t) ==
  /\ prog = "mutex" /\ pc[t] = "idle"
  /\ AMGoto(t, "am_query")
  /\ res' = [res EXCEPT ![t] = "none"]
  /\ UNCHANGED <<m_mutex, m_id, hold, amFrame>>

\* return m_id.load() == std::this_thread::get_id();
AM_Load(t) ==
  /\ pc[t] = "am_query"
  /\ res' = [res EXCEPT ![t] = IF m_id = get_id(t) THEN "true" ELSE "false"]
  /\ AMGoto(t, "idle")
  /\ UNCHANGED <<m_mutex, m_id, hold, amFrame>>

-----------------------------------------------------------------------------
(***************************************************************************)
(* PointerStorage: a vector of pointers and a lock-free stack of the free  *)
(* indices, under an AIReadWriteSpinLock.                                  *)
(*                                                                         *)
(* m_rwlock is kept as the thread that has the write lock (w), the thread  *)
(* that is converting its read lock (c) and the set of threads that have   *)
(* a read lock (r): rdlock waits while there is a writer or a converting   *)
(* thread, wrlock while there is any other thread, rd2wrlock throws when    *)
(* another thread is converting and waits for the other readers to leave.  *)
(* A pop or a push of the lock-free stack is one step.                     *)
(*                                                                         *)
(* Every thread makes MaxStore calls of insert, erase (of an index that    *)
(* insert returned to it) and for_each; iter[t] counts them.  The pointer  *)
(* inserted by the k-th call of thread t is <<t, k>>.  The labels ps_* are *)
(* the positions inside insert, pe_* inside erase, pf_* inside for_each.   *)
(***************************************************************************)
MaxStore == 2
initial_size == 1

psFrame == <<lock, prog, phase, hold, res, slVars, rwVars, testVars, tokVars,
             trkVars, mqVars, semVars, amVars>>

\* The entries that are in the storage: inserted and not erased.
Live == UNION {owned[t] : t \in Threads}

\* The indices size, ..., new_size - 1 in the order in which they are popped.
\* Faulty: the indices that were there already are pushed again.
NewIndices_from_zero(size, new_size) == [i \in 1..new_size |-> i - 1]

\* index_type index = m_size; while (index > size) bounded_push(--index);
NewIndices(size, new_size) == [i \in 1..(new_size - size) |-> size + i - 1]

\* Faulty: the slot of a free index keeps its pointer.
Cleared_keeps(storage, indices) == storage

\* m_storage[index] = nullptr; for every index of indices
Cleared(storage, indices) ==
  [i \in DOMAIN storage |->
     IF \E k \in 1..Len(indices) : indices[k] = i THEN nullptr ELSE storage[i]]

\* ptr of "for (void* ptr : m_storage) if (ptr)", in order, from slot i on.
RECURSIVE Pointers(_, _)
Pointers(storage, i) ==
  IF i \notin DOMAIN storage THEN <<>>
  ELSE (IF storage[i] # nullptr THEN <<storage[i]>> ELSE <<>>)
         \o Pointers(storage, i + 1)

\* The stack after bounded_push of every element of indices, first to last.
RECURSIVE Pushed_all(_, _)
Pushed_all(stack, indices) ==
  IF indices = <<>> THEN stack
  ELSE Pushed_all(<<Head(indices)>> \o stack, Tail(indices))

\* Faulty: the storage does not grow.
Grown_same(size, initial) == size

\* m_size = std::max(initial_size, memory_grow_factor * size);
\* if (m_size == size) m_size += 1;    with memory_grow_factor = 1.414f
Grown(size, initial) ==
  LET f == (1414 * size) \div 1000
      n == IF initial > f THEN initial ELSE f
  IN IF n = size THEN size + 1 ELSE n

PSGoto(t, l) == pc' = [pc EXCEPT ![t] = l]

\* VoidPointerStorage(initial_size): increase_size(initial_size) on the empty
\* storage.
VoidPointerStorage(n) ==
  /\ m_rwlock = [w |-> NoThread, c |-> NoThread, r |-> {}]
  /\ m_size = Grown(0, n)
  /\ m_storage = [i \in 0..(Grown(0, n) - 1) |-> nullptr]
  /\ m_free_indices = NewIndices(0, Grown(0, n))
  /\ index = [t \in Threads |-> 0]
  /\ value = [t \in Threads |-> nullptr]
  /\ pos = [t \in Threads |-> 0]
  /\ free_indices = [t \in Threads |-> <<>>]
  /\ called = [t \in Threads |-> <<>>]
  /\ owned = [t \in Threads |-> {}]

\* insert(value): the call.
insert(t) ==
  /\ prog = "storage" /\ pc[t] = "idle" /\ iter[t] < MaxStore
  /\ value' = [value EXCEPT ![t] = <<t, iter[t] + 1>>]
  /\ iter' = [iter EXCEPT ![t] = @ + 1]
  /\ PSGoto(t, "ps_rdlock")
  /\ UNCHANGED <<m_rwlock, m_size, m_storage, m_free_indices, index, pos,
                 free_indices, called, owned, psFrame>>

\* m_rwlock.rdlock(); in insert and in erase
PS_rdlock(t) ==
  /\ pc[t] \in {"ps_rdlock", "pe_rdlock"}
  /\ m_rwlock.w = NoThread /\ m_rwlock.c = NoThread
  /\ m_rwlock' = [m_rwlock EXCEPT !.r = @ \cup {t}]
  /\ PSGoto(t, IF pc[t] = "ps_rdlock" THEN "ps_pop" ELSE "pe_push")
  /\ UNCHANGED <<m_size, m_storage, m_free_indices, index, value, pos,
                 free_indices, called, owned, iter, psFrame>>

\* while (!m_free_indices.pop(index)) increase_size();
PS_pop(t) ==
  /\ pc[t] = "ps_pop"
  /\ IF m_free_indices # <<>>
       THEN /\ index' = [index EXCEPT ![t] = Head(m_free_indices)]
            /\ m_free_indices' = Tail(m_free_indices)
            /\ PSGoto(t, "ps_store")
       ELSE /\ PSGoto(t, "ps_rd2wrlock")
            /\ UNCHANGED <<index, m_free_indices>>
  /\ UNCHANGED <<m_rwlock, m_size, m_storage, value, pos, free_indices,
                 called, owned, iter, psFrame>>

\* increase_size: m_rwlock.rd2wrlock(); which throws when another thread is
\* converting.
PS_rd2wrlock(t) ==
  /\ pc[t] = "ps_rd2wrlock"
  /\ IF m_rwlock.c # NoThread
       THEN PSGoto(t, "ps_catch") /\ UNCHANGED m_rwlock
       ELSE /\ m_rwlock' = [m_rwlock EXCEPT !.c = t]
            /\ PSGoto(t, "ps_convert")
  /\ UNCHANGED <<m_size, m_storage, m_free_indices, index, value, pos,
                 free_indices, called, owned, iter, psFrame>>

\* rd2wrlock returns once the other readers have left.
PS_converted(t) ==
  /\ pc[t] = "ps_convert"
  /\ m_rwlock.r = {t} /\ m_rwlock.w = NoThread
  /\ m_rwlock' = [w |-> t, c |-> NoThread, r |-> {}]
  /\ PSGoto(t, "ps_grow")
  /\ UNCHANGED <<m_size, m_storage, m_free_indices, index, value, pos,
                 free_indices, called, owned, iter, psFrame>>

\* The body of increase_size() with the write lock: the new size, the resize
\* of m_storage, and the free indices: those that were left (tmp) on top of
\* the new ones.
PS_grow(t) ==
  /\ pc[t] = "ps_grow"
  /\ LET size == m_size
         new_size == Grown(size, 0)
     IN /\ m_size' = new_size
        /\ m_storage' = [i \in 0..(new_size - 1) |->
                           IF i < size THEN m_storage[i] ELSE nullptr]
        /\ m_free_indices' = m_free_indices \o NewIndices(size, new_size)
  /\ PSGoto(t, "ps_wr2rdlock")
  /\ UNCHANGED <<m_rwlock, index, value, pos, free_indices, called, owned,
                 iter, psFrame>>

\* m_rwlock.wr2rdlock(); and the return to the loop of insert
PS_wr2rdlock(t) ==
  /\ pc[t] = "ps_wr2rdlock"
  /\ m_rwlock' = [w |-> NoThread, c |-> NoThread, r |-> {t}]
  /\ PSGoto(t, "ps_pop")
  /\ UNCHANGED <<m_size, m_storage, m_free_indices, index, value, pos,
                 free_indices, called, owned, iter, psFrame>>

\* catch (std::exception const&) { m_rwlock.rdunlock(); ...
PS_catch(t) ==
  /\ pc[t] = "ps_catch"
  /\ m_rwlock' = [m_rwlock EXCEPT !.r = @ \ {t}]
  /\ PSGoto(t, "ps_yield")
  /\ UNCHANGED <<m_size, m_storage, m_free_indices, index, value, pos,
                 free_indices, called, owned, iter, psFrame>>

\* ... m_rwlock.rd2wryield(); continue; }
PS_yield(t) ==
  /\ pc[t] = "ps_yield"
  /\ m_rwlock.c = NoThread
  /\ PSGoto(t, "ps_rdlock")
  /\ UNCHANGED <<m_rwlock, m_size, m_storage, m_free_indices, index, value,
                 pos, free_indices, called, owned, iter, psFrame>>

\* m_storage[index] = value;
PS_store(t) ==
  /\ pc[t] = "ps_store"
  /\ m_storage' = [m_storage EXCEPT ![index[t]] = value[t]]
  /\ PSGoto(t, "ps_rdunlock")
  /\ UNCHANGED <<m_rwlock, m_size, m_free_indices, index, value, pos,
                 free_indices, called, owned, iter, psFrame>>

\* m_rwlock.rdunlock(); break; return index;
PS_rdunlock(t) ==
  /\ pc[t] = "ps_rdunlock"
  /\ m_rwlock' = [m_rwlock EXCEPT !.r = @ \ {t}]
  /\ owned' = [owned EXCEPT ![t] = @ \cup {<<index[t], value[t]>>}]
  /\ index' = [index EXCEPT ![t] = 0]
  /\ value' = [value EXCEPT ![t] = nullptr]
  /\ PSGoto(t, "idle")
  /\ UNCHANGED <<m_size, m_storage, m_free_indices, pos, free_indices,
                 called, iter, psFrame>>

\* erase(pos): the call, with an index that insert returned to the caller.
erase(t) ==
  /\ prog = "storage" /\ pc[t] = "idle" /\ iter[t] < MaxStore
  /\ \E e \in owned[t] : pos' = [pos EXCEPT ![t] = e[1]]
  /\ iter' = [iter EXCEPT ![t] = @ + 1]
  /\ PSGoto(t, "pe_rdlock")
  /\ UNCHANGED <<m_rwlock, m_size, m_storage, m_free_indices, index, value,
                 free_indices, called, owned, psFrame>>

\* m_free_indices.bounded_push(pos);
PE_push(t) ==
  /\ pc[t] = "pe_push"
  /\ m_free_indices' = <<pos[t]>> \o m_free_indices
  /\ owned' = [owned EXCEPT ![t] = {e \in @ : e[1] # pos[t]}]
  /\ PSGoto(t, "pe_rdunlock")
  /\ UNCHANGED <<m_rwlock, m_size, m_storage, index, value, pos,
                 free_indices, called, iter, psFrame>>

\* m_rwlock.rdunlock(); in erase
PE_rdunlock(t) ==
  /\ pc[t] = "pe_rdunlock"
  /\ m_rwlock' = [m_rwlock EXCEPT !.r = @ \ {t}]
  /\ pos' = [pos EXCEPT ![t] = 0]
  /\ PSGoto(t, "idle")
  /\ UNCHANGED <<m_size, m_storage, m_free_indices, index, value,
                 free_indices, called, owned, iter, psFrame>>

\* for_each(callback): the call.
for_each(t) ==
  /\ prog = "storage" /\ pc[t] = "idle" /\ iter[t] < MaxStore
  /\ iter' = [iter EXCEPT ![t] = @ + 1]
  /\ called' = [called EXCEPT ![t] = <<>>]
  /\ PSGoto(t, "pf_wrlock")
  /\ UNCHANGED <<m_rwlock, m_size, m_storage, m_free_indices, index, value,
                 pos, free_indices, owned, psFrame>>

\* m_rwlock.wrlock();
PF_wrlock(t) ==
  /\ pc[t] = "pf_wrlock"
  /\ m_rwlock.w = NoThread /\ m_rwlock.c = NoThread /\ m_rwlock.r = {}
  /\ m_rwlock' = [m_rwlock EXCEPT !.w = t]
  /\ PSGoto(t, "pf_consume")
  /\ UNCHANGED <<m_size, m_storage, m_free_indices, index, value, pos,
                 free_indices, called, owned, iter, psFrame>>

\* m_free_indices.consume_all([...](index_type index){
\*   m_storage[index] = nullptr; free_indices.push_back(index); });
PF_consume_all(t) ==
  /\ pc[t] = "pf_consume"
  /\ free_indices' = [free_indices EXCEPT ![t] = m_free_indices]
  /\ m_storage' = Cleared(m_storage, m_free_indices)
  /\ m_free_indices' = <<>>
  /\ PSGoto(t, "pf_callback")
  /\ UNCHANGED <<m_rwlock, m_size, index, value, pos, called, owned, iter,
                 psFrame>>

\* for (void* ptr : m_storage) if (ptr) callback(static_cast<T*>(ptr));
PF_callback(t) ==
  /\ pc[t] = "pf_callback"
  /\ called' = [called EXCEPT ![t] = Pointers(m_storage, 0)]
  /\ PSGoto(t, "pf_restore")
  /\ UNCHANGED <<m_rwlock, m_size, m_storage, m_free_indices, index, value,
                 pos, free_indices, owned, iter, psFrame>>

\* for (index_type index : free_indices) m_free_indices.bounded_push(index);
PF_restore(t) ==
  /\ pc[t] = "pf_restore"
  /\ m_free_indices' = Pushed_all(m_free_indices, free_indices[t])
  /\ free_indices' = [free_indices EXCEPT ![t] = <<>>]
  /\ PSGoto(t, "pf_wrunlock")
  /\ UNCHANGED <<m_rwlock, m_size, m_storage, index, value, pos, called,
                 owned, iter, psFrame>>

\* m_rwlock.wrunlock();
PF_wrunlock(t) ==
  /\ pc[t] = "pf_wrunlock"
  /\ m_rwlock' = [m_rwlock EXCEPT !.w = NoThread]
  /\ PSGoto(t, "idle")
  /\ UNCHANGED <<m_size, m_storage, m_free_indices, index, value, pos,
                 free_indices, called, owned, iter, psFrame>>

-----------------------------------------------------------------------------
(***************************************************************************)
(* VoidPointerStorage::insert on the AIReadWriteSpinLock of this module:    *)
(* the calls of m_rwlock are the calls of the spin lock above and phase[t]  *)
(* is the position of thread t in insert between them.  Thread t makes      *)
(* InsertCalls(t) calls of insert.                                          *)
(***************************************************************************)
insFrame == <<lock, prog, thrVars, slVars, rwVars, testVars, tokVars, trkVars,
              mqVars, semVars, amVars, m_rwlock, pos, free_indices, called>>

\* while (!m_free_indices.pop(index)) increase_size();
Insert_pop(t) ==
  /\ prog = "insert" /\ pc[t] = "idle" /\ phase[t] = "ins_pop"
  /\ IF m_free_indices # <<>>
       THEN /\ index' = [index EXCEPT ![t] = Head(m_free_indices)]
            /\ m_free_indices' = Tail(m_free_indices)
            /\ phase' = [phase EXCEPT ![t] = "ins_store"]
       ELSE /\ phase' = [phase EXCEPT ![t] = "rd2wrlock"]
            /\ UNCHANGED <<index, m_free_indices>>
  /\ value' = [value EXCEPT ![t] = <<t, iter[t] + 1>>]
  /\ UNCHANGED <<m_size, m_storage, owned, iter, insFrame>>

\* The body of increase_size() once rd2wrlock has returned.
Insert_grow(t) ==
  /\ prog = "insert" /\ pc[t] = "idle" /\ phase[t] = "ins_try"
  /\ res[t] # "DeadlockAvoided"
  /\ LET size == m_size
         new_size == Grown(size, 0)
     IN /\ m_size' = new_size
        /\ m_storage' = [i \in 0..(new_size - 1) |->
                           IF i < size THEN m_storage[i] ELSE nullptr]
        /\ m_free_indices' = m_free_indices \o NewIndices(size, new_size)
  /\ phase' = [phase EXCEPT ![t] = "wr2rdlock"]
  /\ UNCHANGED <<index, value, owned, iter, insFrame>>

\* m_storage[index] = value; what follows is m_rwlock.rdunlock() and the
\* return of index, which is recorded here.
Insert_store(t) ==
  /\ prog = "insert" /\ pc[t] = "idle" /\ phase[t] = "ins_store"
  /\ m_storage' = [m_storage EXCEPT ![index[t]] = value[t]]
  /\ owned' = [owned EXCEPT ![t] = @ \cup {<<index[t], value[t]>>}]
  /\ index' = [index EXCEPT ![t] = 0]
  /\ value' = [value EXCEPT ![t] = nullptr]
  /\ phase' = [phase EXCEPT ![t] = "ins_rdunlock"]
  /\ UNCHANGED <<m_size, m_free_indices, iter, insFrame>>


\* The state after construction of the lock and of the test's globals:
\* AIReadWriteSpinLock() : m_state(0), and
\* AIReadWriteMutex() : m_readers_count(0), m_waiting_writers(0), m_rd2wr_count(0).
InitObjects ==
  /\ pc = [t \in Threads |-> "idle"]
  /\ hold = [t \in Threads |-> "none"]
  /\ res = [t \in Threads |-> "none"]
  /\ iter = [t \in Threads |-> 0]
  /\ m_state = 0
  /\ m_readers_cv_mutex = NoThread
  /\ m_writers_cv_mutex = NoThread
  /\ state = [t \in Threads |-> 0]
  /\ increment = [t \in Threads |-> 0]
  /\ ret = [t \in Threads |-> "ret"]
  /\ locked = [t \in Threads |-> FALSE]
  /\ m_state_mutex = NoThread
  /\ m_readers_count = 0
  /\ m_waiting_writers = 0
  /\ m_rd2wr_count = 0
  /\ waiting_writer = [t \in Threads |-> 0]
  /\ count = [i \in 0..NThreads |-> 0]
  /\ write_access = 0
  /\ read_access = 0
  /\ tokens = [t \in Threads |-> <<>>]
  /\ object = [o \in Objects |-> IF o = "node" THEN "alive" ELSE "none"]
  /\ tracker_ = [o \in Objects |-> o = "node"]
  /\ s_ = [o \in Objects |-> IF o = "node" THEN "hello" ELSE ""]
  /\ data_mutex = [o \in Objects |-> Unlocked]
  /\ tracker_mutex = Unlocked
  /\ tracked_unlocked_ptr_ =
       [m_base |-> "node", m_read_write_mutex_ptr |-> "node"]
  /\ node_r = [t \in Threads |-> NoAccess]
  /\ m_head = m_stub
  /\ m_tail = m_stub
  /\ m_next = [n \in Nodes \cup {m_stub} |-> nullptr]
  /\ node = [t \in Threads |-> nullptr]
  /\ prev = [t \in Threads |-> nullptr]
  /\ tail = nullptr
  /\ next = nullptr
  /\ popped = <<>>
  /\ pop_saw = {}
  /\ word = [t \in Threads |-> 0]
  /\ post_n = [t \in Threads |-> 0]
  /\ m_mutex = NoThread
  /\ m_id = NoThread
  /\ VoidPointerStorage(initial_size)

\* Semaphore(uint32_t tokens) : Futex<uint64_t>(tokens) { }
Semaphore(k) ==
  /\ m_word = k
  /\ account = [initial |-> k, posted |-> 0, taken |-> 0]

\* Spec: the threads make any calls that obey the API, on a lock of either
\* class.
Init ==
  /\ InitObjects
  /\ Semaphore(0)
  /\ lock \in {"SL", "RW"}
  /\ prog = "api"
  /\ phase = [t \in Threads |-> "api"]

Next ==
  \E t \in Threads :
    SL_Call(t) \/ SL_Step(t) \/ RW_Call(t) \/ RW_Step(t) \/ SpuriousWakeup(t)

Spec == Init /\ [][Next]_vars

\* SpecWriters: threads that use an AIReadWriteSpinLock and call wrlock,
\* wrunlock, wr2rdlock, rd2wrlock and rdunlock only (a read lock comes from
\* wr2rdlock), without spurious wake-ups.
InitSL ==
  /\ InitObjects
  /\ Semaphore(0)
  /\ lock = "SL"
  /\ prog = "api"
  /\ phase = [t \in Threads |-> "api"]

NextWriters ==
  \E t \in Threads :
    \/ SL_wrlock(t)
    \/ SL_wrunlock(t)
    \/ SL_wr2rdlock(t)
    \/ SL_rd2wrlock(t)
    \/ SL_rdunlock(t)
    \/ do_transition(t)
    \/ wrlock_blocked(t)
    \/ rd2wrlock_blocked(t)

SpecWriters == InitSL /\ [][NextWriters]_vars

\* FairSpecOps: threads that take and release read and write locks of an
\* AIReadWriteSpinLock (rdlock, rdunlock, wrlock, wrunlock, wr2rdlock), each
\* at most MaxOps locks, without spurious wake-ups.  Every thread that can
\* take a step inside a call eventually takes it, and a thread that holds a
\* lock releases it: the scheduler runs every thread.
InitOps ==
  /\ InitObjects
  /\ Semaphore(0)
  /\ lock = "SL"
  /\ prog = "ops"
  /\ phase = [t \in Threads |-> "ops"]

StepOps(t) == do_transition(t) \/ rdlock_blocked(t) \/ wrlock_blocked(t)

NextOps ==
  \E t \in Threads :
    \/ SL_rdlock(t)
    \/ SL_rdunlock(t)
    \/ SL_wrlock(t)
    \/ SL_wrunlock(t)
    \/ SL_wr2rdlock(t)
    \/ StepOps(t)

Proceeds(t) == StepOps(t) \/ SL_rdunlock(t) \/ SL_wrunlock(t)

FairSpecOps ==
  InitOps /\ [][NextOps]_vars /\ \A t \in Threads : WF_vars(Proceeds(t))

\* FairSpecConvert: every thread runs the inner loop of run() on an
\* AIReadWriteSpinLock, MaxIter times: it takes a read lock, reads, tries to
\* convert, and after DeadlockAvoided unlocks, yields and tries again.
\* There are no spurious wake-ups and every thread keeps running.
InitConvert ==
  /\ InitObjects
  /\ Semaphore(0)
  /\ lock = "SL"
  /\ prog = "convert"
  /\ phase = [t \in Threads |-> "rdlock"]

StepConvert(t) ==
  \/ SL_rdlock(t)
  \/ SL_rdunlock(t)
  \/ SL_rd2wrlock(t)
  \/ SL_rd2wryield(t)
  \/ SL_wrunlock(t)
  \/ do_transition(t)
  \/ rdlock_blocked(t)
  \/ rd2wrlock_blocked(t)
  \/ rd2wryield_blocked(t)
  \/ add(t)
  \/ read(t)

NextConvert == \E t \in Threads : StepConvert(t)

FairSpecConvert ==
  /\ InitConvert
  /\ [][NextConvert]_vars
  /\ \A t \in Threads : WF_vars(StepConvert(t))

\* SpecRun: every thread executes run() of the stress test on an
\* AIReadWriteMutex, MaxIter iterations each; waits may wake up spuriously.
InitRun ==
  /\ InitObjects
  /\ Semaphore(0)
  /\ lock = "RW"
  /\ prog = "run"
  /\ phase = [t \in Threads |-> "wrlock1"]

StepRun(t) ==
  \/ RW_wrlock(t)
  \/ RW_wrunlock(t)
  \/ RW_rdlock(t)
  \/ RW_rdunlock(t)
  \/ RW_rd2wrlock(t)
  \/ RW_rd2wryield(t)
  \/ RW_StepRun(t)
  \/ add(t)
  \/ read(t)

NextRun == \E t \in Threads : StepRun(t) \/ SpuriousWakeup(t)

SpecRun == InitRun /\ [][NextRun]_vars

\* FairSpecRun: the same test without spurious wake-ups, every thread being
\* scheduled as long as it can take a step.
NextRunFair == \E t \in Threads : StepRun(t)

FairSpecRun ==
  /\ InitRun
  /\ [][NextRunFair]_vars
  /\ \A t \in Threads : WF_vars(StepRun(t))

\* SpecTokens: every thread constructs and destructs access objects of one
\* Unlocked object whose policy is ReadWrite<AIReadWriteMutex>.
InitTokens ==
  /\ InitObjects
  /\ Semaphore(0)
  /\ lock = "RW"
  /\ prog = "tokens"
  /\ phase = [t \in Threads |-> "scope"]

StepTokens(t) ==
  \/ ConstReadAccess_Unlocked(t)
  \/ ReadAccess_Unlocked(t)
  \/ ReadAccess_Carry(t)
  \/ WriteAccess_Unlocked(t)
  \/ WriteAccess_Access(t)
  \/ WriteAccess_Carry(t)
  \/ Write2ReadCarry_Unlocked(t)
  \/ Constructed(t)
  \/ WriteAccess_Promoted(t)
  \/ PassByReference(t)
  \/ Return(t)
  \/ Destruct(t)

\* The member functions of the mutex that the access objects call, and the
\* steps inside them.
MutexTokens(t) ==
  \/ RW_rdlock(t)
  \/ RW_rdunlock(t)
  \/ RW_wrlock(t)
  \/ RW_wrunlock(t)
  \/ RW_wr2rdlock(t)
  \/ RW_rd2wrlock(t)
  \/ RW_Lock(t)
  \/ RWR_Pred(t)
  \/ RWU_Body(t)
  \/ RWU_Notify(t)
  \/ RWW_Enter(t)
  \/ RWW_Pred(t)
  \/ RWC_Enter(t)
  \/ RWC_Pred(t)
  \/ RWX_Body(t)
  \/ RWX_Notify(t)
  \/ RWD_Body(t)
  \/ RWD_Notify(t)

NextTokens ==
  \E t \in Threads : StepTokens(t) \/ MutexTokens(t) \/ SpuriousWakeup(t)

SpecTokens == InitTokens /\ [][NextTokens]_vars

\* SpecTracker: the program "tracker": the owner moves node to node2 and
\* destroys objects, the other threads use the tracker.
InitTracker ==
  /\ InitObjects
  /\ Semaphore(0)
  /\ lock = "SL"
  /\ prog = "tracker"
  /\ phase = [t \in Threads |-> "tracker"]

NextTracker ==
  \E t \in Threads :
    \/ MoveConstruct(t)
    \/ do_wrlock(t)
    \/ TrackedObject_Move(t)
    \/ Tracker_wat(t)
    \/ set_tracked_unlocked(t)
    \/ update_mutex_pointer(t)
    \/ Tracker_wat_Destruct(t)
    \/ MoveData(t)
    \/ do_wrunlock(t)
    \/ \E o \in Objects : Destroy(t, o)
    \/ TrackedObject_Destructed(t)
    \/ \E kind \in {"rat", "wat"} : tracked_access(t, kind)
    \/ Tracker_rat(t)
    \/ Access_Construct(t)
    \/ Access_Locked(t)
    \/ Access_Destroyed(t)
    \/ Tracker_rat_Destruct(t)
    \/ Access_Use(t)
    \/ Access_Destruct(t)

SpecTracker == InitTracker /\ [][NextTracker]_vars

\* SpecQueue: the program "queue": the producers push their nodes, the
\* consumer pops.
InitQueue ==
  /\ InitObjects
  /\ Semaphore(0)
  /\ lock = "SL"
  /\ prog = "queue"
  /\ phase = [t \in Threads |-> "queue"]

NextQueue ==
  \E t \in Threads :
    \/ push(t)
    \/ push_store(t)
    \/ push_exchange(t)
    \/ push_fix(t)
    \/ pop(t)
    \/ pop_next(t)
    \/ pop_stub(t)
    \/ pop_check(t)
    \/ pop_head(t)
    \/ pop_reload(t)
    \/ pop_null(t)

SpecQueue == InitQueue /\ [][NextQueue]_vars

\* SpecSemaphore: the threads post to, wait for and try_wait a Semaphore
\* that starts with up to MaxInitial tokens; FUTEX_WAIT may return without
\* a wake.
InitSemaphore ==
  /\ InitObjects
  /\ \E k \in 0..MaxInitial : Semaphore(k)
  /\ lock = "SL"
  /\ prog = "semaphore"
  /\ phase = [t \in Threads |-> "semaphore"]

\* A step inside a call.
StepSemaphore(t) ==
  \/ Futex_wake(t)
  \/ wait_fast(t)
  \/ wait_add(t)
  \/ wait_loop(t)
  \/ Futex_wait(t)
  \/ wait_reload(t)
  \/ try_wait_loop(t)

CallSemaphore(t) == post(t) \/ wait(t) \/ try_wait(t)

NextSemaphore ==
  \E t \in Threads :
    \/ CallSemaphore(t)
    \/ StepSemaphore(t)
    \/ Futex_interrupted(t)

SpecSemaphore == InitSemaphore /\ [][NextSemaphore]_vars

\* FairSpecSemaphore: one producer and NThreads - 1 consumers, without
\* signals and spurious returns of FUTEX_WAIT; a thread that can take a step
\* inside a call eventually takes it.
InitHandoff ==
  /\ InitObjects
  /\ \E k \in 0..MaxInitial : Semaphore(k)
  /\ lock = "SL"
  /\ prog = "semaphore"
  /\ phase = [t \in Threads |-> IF t = 1 THEN "producer" ELSE "consumer"]

NextSemaphoreFair == \E t \in Threads : CallSemaphore(t) \/ StepSemaphore(t)

FairSpecSemaphore ==
  /\ InitHandoff
  /\ [][NextSemaphoreFair]_vars
  /\ \A t \in Threads : WF_vars(StepSemaphore(t))

\* SpecMutex: the threads lock, try_lock and unlock an AIMutex of AIMutex.h
\* and ask is_self_locked at any moment between their calls.
InitMutex ==
  /\ InitObjects
  /\ Semaphore(0)
  /\ lock = "AIMutex"
  /\ prog = "mutex"
  /\ phase = [t \in Threads |-> "mutex"]

StepMutex(t) ==
  \/ AIMutex_lock(t)
  \/ AM_Lock(t)
  \/ AIMutex_try_lock(t)
  \/ AM_TryLock(t)
  \/ AM_Store(t)
  \/ AIMutex_is_self_locked(t)
  \/ AM_Load(t)

NextMutex ==
  \E t \in Threads : StepMutex(t) \/ AIMutex_unlock(t) \/ AM_Unlock(t)

SpecMutex == InitMutex /\ [][NextMutex]_vars

\* SpecMutex2017: the same calls on an AIMutex of the earlier class.
InitMutex2017 ==
  /\ InitObjects
  /\ Semaphore(0)
  /\ lock = "AIMutex_2017"
  /\ prog = "mutex"
  /\ phase = [t \in Threads |-> "mutex"]

NextMutex2017 ==
  \E t \in Threads : StepMutex(t) \/ AIMutex_unlock_2017(t) \/ AM_Clear(t)

SpecMutex2017 == InitMutex2017 /\ [][NextMutex2017]_vars

\* SpecStorage: the threads insert into, erase from and iterate over a
\* PointerStorage constructed with initial_size slots.
InitStorage ==
  /\ InitObjects
  /\ Semaphore(0)
  /\ lock = "SL"
  /\ prog = "storage"
  /\ phase = [t \in Threads |-> "storage"]

NextStorage ==
  \E t \in Threads :
    \/ insert(t)
    \/ PS_rdlock(t)
    \/ PS_pop(t)
    \/ PS_rd2wrlock(t)
    \/ PS_converted(t)
    \/ PS_grow(t)
    \/ PS_wr2rdlock(t)
    \/ PS_catch(t)
    \/ PS_yield(t)
    \/ PS_store(t)
    \/ PS_rdunlock(t)
    \/ erase(t)
    \/ PE_push(t)
    \/ PE_rdunlock(t)
    \/ for_each(t)
    \/ PF_wrlock(t)
    \/ PF_consume_all(t)
    \/ PF_callback(t)
    \/ PF_restore(t)
    \/ PF_wrunlock(t)

SpecStorage == InitStorage /\ [][NextStorage]_vars

\* FairSpecInsert: thread t calls insert InsertCalls(t) times on a storage
\* constructed with initial_size slots, whose m_rwlock is the
\* AIReadWriteSpinLock.  There are no spurious wake-ups and every thread
\* keeps running.
InitInsert ==
  /\ InitObjects
  /\ Semaphore(0)
  /\ lock = "SL"
  /\ prog = "insert"
  /\ phase = [t \in Threads |-> "rdlock"]

StepInsert(t) ==
  \/ SL_rdlock(t)
  \/ SL_rdunlock(t)
  \/ SL_rd2wrlock(t)
  \/ SL_rd2wryield(t)
  \/ SL_wr2rdlock(t)
  \/ do_transition(t)
  \/ rdlock_blocked(t)
  \/ rd2wrlock_blocked(t)
  \/ rd2wryield_blocked(t)
  \/ Insert_pop(t)
  \/ Insert_grow(t)
  \/ Insert_store(t)

NextInsert == \E t \in Threads : StepInsert(t)

FairSpecInsert ==
  /\ InitInsert
  /\ [][NextInsert]_vars
  /\ \A t \in Threads : WF_vars(StepInsert(t))

-----------------------------------------------------------------------------
(***************************************************************************)
(* Properties.                                                             *)
(***************************************************************************)
Readers == {t \in Threads : hold[t] = "read"}
Writers == {t \in Threads : hold[t] = "write"}

\* C1: in AIReadWriteSpinLock, while a thread holds the write lock (from
\* the return of wrlock or of a successful rd2wrlock until its call of
\* wrunlock or wr2rdlock) no other thread holds a read lock or the write
\* lock.
C1_MutualExclusion ==
  lock = "SL" =>
    \A t \in Writers : \A u \in Threads \ {t} : hold[u] = "none"

\* A thread holds the write lock while a reader and a writer are kept out.
C1_Witness ==
  /\ lock = "SL"
  /\ \E t, u, x \in Threads :
       hold[t] = "write" /\ pc[u] = "rb_wait" /\ pc[x] = "wl_wait"

\* C2: in AIReadWriteSpinLock a rd2wrlock call that was let through returns
\* with the write lock once the other readers and every actual writer have
\* released, whichever thread each notify_one wakes.  Stated for a finite
\* run: while such a call is blocked in its wait and no other thread holds
\* a lock, the threads can still take a step.
C2_ConversionCompletes ==
  \A t \in Threads :
    (pc[t] = "cv_wait" /\ Readers = {t} /\ Writers = {}) => ENABLED NextWriters

\* A thread that called rd2wrlock and was let through: it waits for the
\* other readers to leave, or has just taken the write lock.
Converting(t) ==
  /\ hold[t] = "read"
  /\ pc[t] \in {"cv_spin", "cv_lock", "cv_pred", "cv_wait", "cv_unlock",
                "rwc_pred", "rwc_wait", "rwc_relock"}

\* A thread whose rd2wrlock threw: it still holds its read lock.
Threw(t) == hold[t] = "read" /\ res[t] = "DeadlockAvoided"

\* C3: when exactly two threads hold a read lock and both have called
\* rd2wrlock, exactly one of the two calls failed with DeadlockAvoided and
\* the other one was let through; for both classes of lock.
C3_ExactlyOneThrows ==
  \A t, u \in Threads :
    (/\ t # u
     /\ Readers = {t, u}
     /\ Converting(t) \/ Threw(t)
     /\ Converting(u) \/ Threw(u)) => (Threw(t) # Threw(u))

\* Two readers, both in rd2wrlock: one got the exception, the other waits.
C3_Witness ==
  \E t, u \in Threads :
    t # u /\ Readers = {t, u} /\ Threw(t) /\ Converting(u) /\ lock = "SL"

\* A thread that released its read lock after DeadlockAvoided and is in
\* rd2wryield.
InYield(t) == hold[t] = "none" /\ pc[t] \in {"y_lock", "y_pred", "y_wait"}

\* C4: in AIReadWriteSpinLock, once the thread whose rd2wrlock failed with
\* DeadlockAvoided has released its read lock and called rd2wryield, the
\* rd2wrlock of the other converter returns with the write lock; and the
\* rd2wryield of the loser returns and its retry (rdlock, then rd2wrlock)
\* ends with the write lock too.
C4_YieldLetsWinnerThrough ==
  \A l \in Threads :
    /\ \A u \in Threads \ {l} :
         (InYield(l) /\ Converting(u)) ~> (hold[u] = "write")
    /\ InYield(l) ~> (hold[l] = "write")

\* The loser is blocked in rd2wryield while the winner waits for the
\* write lock.
C4_Witness ==
  \E l, u \in Threads :
    l # u /\ pc[l] = "y_wait" /\ InYield(l) /\ Converting(u)

\* C6: in the stress test run on an AIReadWriteMutex the asserts of add and
\* of read never fail: where add evaluates its assert (in a write section,
\* after wrlock or after a successful rd2wrlock) write_access = 1 and
\* read_access = 0, and where read evaluates its assert (in a read section)
\* write_access = 0.
C6_ShadowCountersAgree ==
  \A t \in Threads :
    /\ phase[t] \in {"add1_chk", "add2_chk"} =>
         write_access = 1 /\ read_access = 0
    /\ phase[t] = "read_chk" => write_access = 0

\* A thread is at the assert of add(-1, thr), after a successful conversion,
\* while another thread is blocked in rdlock and a third one in wrlock.
C6_Witness ==
  \E t, u, x \in Threads :
    phase[t] = "add2_chk" /\ pc[u] = "rwr_wait" /\ pc[x] = "rww_wait"

\* Every thread has left run().
AllDone == \A t \in Threads : phase[t] = "done"

\* C7: the stress test run on an AIReadWriteMutex by two or more threads,
\* each for a bounded number of iterations, ends: every thread finishes all
\* of its iterations and the final count is 0.
C7_TestTerminates == <>(AllDone /\ count[0] = 0)

\* The test has ended: every thread has made all of its iterations and
\* released its locks, and count is 0.
C7_Witness ==
  /\ AllDone /\ count[0] = 0
  /\ \A t \in Threads : hold[t] = "none" /\ iter[t] = MaxIter

\* C10: under the ReadWrite policy the mutex is write-locked by the
\* constructing thread during the whole lifetime of every wat, however the
\* wat was constructed: from the Unlocked object, from a rat that holds a
\* read lock, from a wat passed as a rat, from a w2rCarry, or from a rat
\* that was constructed from a used w2rCarry.
C10_WatIsWriteLocked ==
  \A t \in Threads : \A i \in 1..Len(tokens[t]) :
    (tokens[t][i].cls = "WriteAccess" /\ tokens[t][i].alive) =>
      hold[t] = "write"

AtScope(t) == prog = "tokens" /\ phase[t] = "scope" /\ pc[t] = "idle"

\* The lock that the access objects toks account for: that of the innermost
\* object whose constructor or destructor calls the mutex (a wat made from
\* a rat that was not readlocked, and a rat made from a carry, call
\* nothing).
LockOf(toks) ==
  LET own == {i \in 1..Len(toks) :
                toks[i].m_state \notin {"write2writelocked", "carrylocked"}}
      top == toks[CHOOSE i \in own : \A j \in own : j <= i]
  IN  IF own = {} THEN "none"
      ELSE IF top.cls = "Write2ReadCarry"
             THEN (IF top.m_used THEN "read" ELSE "none")
      ELSE IF top.m_state = "readlocked" THEN "read"
      ELSE "write"

\* C12: destroying an access object that was not constructed from a
\* w2rCarry gives the mutex back in the state it had before the object was
\* constructed.  The state of the lock between two operations depends on
\* the remaining objects only: unlocked when none is left (after a top-level
\* crat, rat or wat), read-locked when the innermost is a crat or rat that
\* took the read lock (after a wat promoted from it), write-locked when the
\* innermost is a wat that took the write lock (after a wat made from that
\* wat passed as a rat).
C12_DestructorRestores ==
  \A t \in Threads : AtScope(t) => hold[t] = LockOf(tokens[t])

\* The destructor of a wat that was promoted from a rat is in wr2rdlock:
\* the rat is the innermost object again.
C12_Witness ==
  \E t \in Threads :
    /\ prog = "tokens" /\ pc[t] = "rwd_notify" /\ hold[t] = "read"
    /\ Len(tokens[t]) = 1 /\ Top(t).m_state = "readlocked"

\* The objects of thread t below its innermost one are its w2rCarry and
\* rats made from the carry.
OnlyCarryBelow(t) ==
  \A i \in 1..(Len(tokens[t]) - 1) :
    tokens[t][i].cls = "Write2ReadCarry" \/ tokens[t][i].m_state = "carrylocked"

\* C13: constructing a w2rCarry takes no lock; the wat constructed from it
\* write-locks the mutex; once that wat is destroyed the mutex is
\* read-locked; rats constructed from the carry and destroyed while the
\* carry lives leave it read-locked; destroying the carry releases the read
\* lock, so that the mutex is unlocked.
C13_CarryLifeCycle ==
  \A t \in Threads :
    AtScope(t) =>
      IF tokens[t] = <<>> THEN hold[t] = "none"
      ELSE CASE Top(t).cls = "Write2ReadCarry" ->
                  hold[t] = IF Top(t).m_used THEN "read" ELSE "none"
             [] Top(t).m_state = "read2writelocked" /\ Len(tokens[t]) = 2
                  /\ tokens[t][1].cls = "Write2ReadCarry" -> hold[t] = "write"
             [] Top(t).m_state = "carrylocked" /\ OnlyCarryBelow(t) ->
                  hold[t] = "read"
             [] OTHER -> TRUE

\* The wat of a carry has been destroyed and a rat constructed from the
\* carry is the innermost object.
C13_Witness ==
  \E t \in Threads :
    /\ AtScope(t) /\ Len(tokens[t]) = 2 /\ hold[t] = "read"
    /\ tokens[t][1].cls = "Write2ReadCarry" /\ tokens[t][1].m_used
    /\ Top(t).m_state = "carrylocked"

\* A step changes the class through which the innermost object of thread
\* t, a wat, is used.
PassesWat(t) ==
  /\ tokens[t] # <<>> /\ Len(tokens'[t]) = Len(tokens[t])
  /\ Top(t).cls = "WriteAccess" /\ Top(t).alive
  /\ tokens'[t][Len(tokens[t])].view # Top(t).view

\* C14: passing a wat by reference as a rat and then as a crat, and the
\* return from the functions that take them, changes nothing of the lock
\* and starts no call of the mutex; the mutex that the wat write-locked is
\* write-locked all along.
C14_PassingKeepsLock ==
  [][\A t \in Threads :
       PassesWat(t) =>
         /\ UNCHANGED <<hold, pc, res, rwVars>>
         /\ phase'[t] = "scope"
         /\ Top(t).m_state \in {"writelocked", "read2writelocked"} =>
              hold'[t] = "write"]_vars

\* A wat made from the Unlocked object is used as a crat.
C14_Witness ==
  \E t \in Threads :
    /\ AtScope(t) /\ tokens[t] # <<>>
    /\ Top(t).cls = "WriteAccess" /\ Top(t).m_state = "writelocked"
    /\ Top(t).view = "ConstReadAccess" /\ hold[t] = "write"

\* The threads that hold the lock m.
Holders(m) == m.r \cup (IF m.w = NoThread THEN {} ELSE {m.w})

\* Thread t waits for a lock of the tracker facility that thread u holds.
WaitsFor(t, u) ==
  \/ /\ pc[t] \in {"mv_set_wrlock", "mv_upd_wrlock", "dt_set_wrlock"}
     /\ u \in Holders(tracker_mutex)
  \/ /\ pc[t] = "tr_rdlock"
     /\ tracker_mutex.w = u
  \/ /\ pc[t] = "mv_do_wrlock"
     /\ u \in Holders(data_mutex["node"])
  \/ /\ pc[t] = "tr_lock_data"
     /\ object[node_r[t].mutex] \in {"alive", "moved"}
     /\ IF node_r[t].kind = "rat" THEN data_mutex[node_r[t].mutex].w = u
        ELSE u \in Holders(data_mutex[node_r[t].mutex])

\* C15: the tracker facility is free of deadlock: while one thread move-
\* constructs a tracked object and others call tracked_rat() or
\* tracked_wat(), no two threads wait for a lock that the other holds, so
\* that every call completes.
C15_NoWaitCycle ==
  \A t, u \in Threads :
    prog = "tracker" /\ t # u => ~(WaitsFor(t, u) /\ WaitsFor(u, t))

\* Thread t holds the mutex of object o.
HoldsData(t, o) == t \in Holders(data_mutex[o])

Destructed ==
  \/ object["node2"] = "dead"
  \/ object["node"] = "dead" /\ object["node2"] = "none"

\* C17: the destructor of a tracked object that was not moved from sets the
\* data pointer of the tracker to null while it has the tracker
\* write-locked; once it has finished the pointer is null, and so is what a
\* thread that has the tracker read-locked has read.
C17_DestructorNullsTracker ==
  /\ (prog = "tracker" /\ pc[Owner] = "dt_set_wrunlock") =>
       /\ tracker_mutex.w = Owner
       /\ tracked_unlocked_ptr_.m_base = "nullptr"
  /\ (prog = "tracker" /\ Destructed) =>
       /\ tracked_unlocked_ptr_.m_base = "nullptr"
       /\ \A t \in Threads :
            (pc[t] \in {"tr_lock_data", "tr_ret"} /\ t \in tracker_mutex.r) =>
              node_r[t].m_base = "nullptr"

\* A thread has read the null pointer after the destructor of node2.
C17_Witness ==
  \E t \in Threads :
    /\ prog = "tracker" /\ object["node2"] = "dead"
    /\ pc[t] = "tr_lock_data" /\ t \in tracker_mutex.r
    /\ node_r[t].m_base = "nullptr"

\* C18: every pushed node is returned by pop exactly once and m_stub never:
\* no node is returned twice, only nodes that were pushed are returned, and
\* when pop returns nullptr without a push of a producer in progress during
\* the call, every pushed node has been returned.
C18_EveryNodeOnce ==
  prog = "queue" =>
    /\ \A i, j \in 1..Len(popped) : i # j => popped[i] # popped[j]
    /\ m_stub \notin Popped
    /\ Popped \subseteq Pushed
    /\ (pc[Consumer] = "pop_null" /\ "pushing" \notin pop_saw) => InQueue = {}

\* All nodes were pushed and returned, and pop returns nullptr.
C18_Witness ==
  /\ prog = "queue" /\ Popped = Nodes
  /\ pc[Consumer] = "pop_null" /\ "pushing" \notin pop_saw

\* C19: pop returns the nodes of one producer in the order in which the
\* producer pushed them.
C19_ProducerOrder ==
  \A i, j \in 1..Len(popped) :
    (prog = "queue" /\ i < j /\ popped[i][1] = popped[j][1]) =>
      popped[i][2] < popped[j][2]

\* The nodes of two producers were returned alternately.
C19_Witness ==
  /\ prog = "queue" /\ Len(popped) = 4
  /\ popped[1][1] = popped[3][1] /\ popped[2][1] = popped[4][1]
  /\ popped[1][1] # popped[2][1]

\* C20: pop returns nullptr only if, at some time during the call, the
\* queue was empty or the push of a producer was in progress: a call
\* during which the queue holds a node and no push is in progress returns a
\* node.  (pop has no loop and waits for nothing.)
C20_NullOnlyIfEmptyOrPushing ==
  (prog = "queue" /\ pc[Consumer] = "pop_null") => pop_saw # {}

\* pop returns nullptr while the queue was never empty during the call.
C20_Witness ==
  /\ prog = "queue" /\ pc[Consumer] = "pop_null"
  /\ pop_saw = {"pushing"}

\* C30: a thread that has the tracker read-locked never reads the data
\* pointer of one object together with the mutex pointer of the other: the
\* move updates the two pointers under one hold of the write lock of the
\* tracker.
C30_PointersUpdatedTogether ==
  \A t \in Threads :
    (/\ prog = "tracker" /\ pc[t] \in {"tr_lock_data", "tr_ret"}
     /\ t \in tracker_mutex.r /\ node_r[t].m_base # "nullptr") =>
      node_r[t].m_base = node_r[t].mutex

\* No thread is inside a member function of the lock or holds a lock.
Quiescent == \A t \in Threads : pc[t] = "idle" /\ hold[t] = "none"

Outcomes(previous_state, inc, rw, ww) ==
  LET readers == /\ removes_writer(inc)
                 /\ writer_present(previous_state) /\ ~writer_present(previous_state + inc)
      all == /\ removes_writer(inc)
             /\ converting_writer_present(previous_state)
             /\ ~converting_writer_present(previous_state + inc)
      one == /\ removes_writer(inc) /\ ~all
             /\ \/ converting_or_actual_writer_present(previous_state)
                     /\ ~converting_or_actual_writer_present(previous_state + inc)
                \/ actual_writer_present(previous_state)
                     /\ ~actual_writer_present(previous_state + inc)
      left == IF all THEN {{}}
              ELSE IF one /\ ww # {} THEN {ww \ {u} : u \in ww}
              ELSE {ww}
  IN {[word |-> previous_state + inc, rw |-> IF readers THEN {} ELSE rw, ww |-> x] :
        x \in left}

\* The call do_transition<inc>() made after one of the outcomes os.
Then(os, inc) == UNION {Outcomes(o.word, inc, o.rw, o.ww) : o \in os}

\* C28: for a thread that holds the write lock, wr2rdlock followed by
\* rdunlock leaves the same state word as wrunlock and wakes up the same
\* blocked threads.
C28_Wr2rdThenRdunlockIsWrunlock ==
  \A t \in Threads :
    (lock = "SL" /\ hold[t] = "write" /\ pc[t] = "idle") =>
      Then(Outcomes(m_state, one_wr2rdlock, ReadersCvWaiters,
                    WritersCvWaiters), one_rdunlock)
        = Outcomes(m_state, one_wrunlock, ReadersCvWaiters, WritersCvWaiters)

\* A writer unlocks while two threads are blocked on m_writers_cv, one of
\* which its unlock wakes up.
C28_Witness ==
  \E t \in Threads :
    /\ lock = "SL" /\ hold[t] = "write" /\ pc[t] = "idle"
    /\ Cardinality(WritersCvWaiters) = 2
    /\ \E o \in Outcomes(m_state, one_wrunlock, ReadersCvWaiters,
                          WritersCvWaiters) :
         Cardinality(o.ww) = 1

\* Thread t takes a step of its own (a thread blocked in a wait takes none:
\* it is moved by the thread that notifies it).
Acts(t) ==
  \/ pc'[t] # pc[t] /\ Woken(pc[t]) = pc[t]
  \/ hold'[t] # hold[t]

\* The fetch_add of the call of do_transition that t is in took away the
\* last writer, waiting writers included.
RemovedWriter(t) ==
  writer_present(state[t]) /\ ~writer_present(state[t] + increment[t])

\* The fetch_add of the call of do_transition that t is in took away the
\* last converting or actual writer.
RemovedActualWriter(t) ==
  /\ converting_or_actual_writer_present(state[t])
  /\ ~converting_or_actual_writer_present(state[t] + increment[t])

\* The labels of do_transition after its fetch_add.
AfterFetchAdd == {"dt_unlock_w", "dt_unlock_r", "dt_notify_r", "dt_notify_w"}

\* C29: a change of the word that makes writer_present false is made by a
\* thread that holds m_readers_cv_mutex, and that thread calls
\* m_readers_cv.notify_all() before it returns; a change after which no
\* converting or actual writer is left is made by a thread that holds
\* m_writers_cv_mutex, and that thread notifies m_writers_cv before it
\* returns.  This covers every change of the word, the compare-exchanges in
\* the predicates of the waits included.
C29_WriterLeavesUnderMutexAndNotifies ==
  [][\A t \in Threads :
       /\ (/\ lock = "SL" /\ m_state' # m_state /\ Acts(t)
           /\ writer_present(m_state) /\ ~writer_present(m_state')) =>
            /\ m_readers_cv_mutex = t
            /\ pc'[t] \in AfterFetchAdd
            /\ state'[t] = m_state /\ increment'[t] = m_state' - m_state
       /\ (/\ lock = "SL" /\ m_state' # m_state /\ Acts(t)
           /\ converting_or_actual_writer_present(m_state)
           /\ ~converting_or_actual_writer_present(m_state')) =>
            /\ m_writers_cv_mutex = t
            /\ pc'[t] \in AfterFetchAdd
            /\ state'[t] = m_state /\ increment'[t] = m_state' - m_state
       /\ (pc[t] \in AfterFetchAdd /\ pc'[t] # pc[t]) =>
            /\ (RemovedWriter(t) /\ pc[t] \in {"dt_unlock_w", "dt_unlock_r"}) =>
                 pc'[t] \in {"dt_unlock_r", "dt_notify_r"}
            /\ pc[t] = "dt_notify_r" =>
                 \A u \in ReadersCvWaiters : pc'[u] = "rb_lock"
            /\ (RemovedActualWriter(t) /\ pc[t] # "dt_notify_w") =>
                 pc'[t] \in AfterFetchAdd
            /\ (pc[t] = "dt_notify_w" /\ WritersCvWaiters # {}) =>
                 \E u \in WritersCvWaiters : pc'[u] # pc[u]
    ]_vars

\* A thread that took away the last writer is about to notify the readers
\* that are blocked, and the writers.
C29_Witness ==
  \E t \in Threads :
    /\ lock = "SL" /\ pc[t] = "dt_notify_r"
    /\ RemovedWriter(t) /\ RemovedActualWriter(t)
    /\ ReadersCvWaiters # {}

\* C21: the tokens field of the Semaphore is the number of tokens it was
\* constructed with plus the tokens posted minus the successful calls of wait
\* and try_wait, and that number is never negative.
C21_TokensConserved ==
  prog = "semaphore" =>
    /\ ntokens(m_word) = account.initial + account.posted - account.taken
    /\ account.initial + account.posted - account.taken >= 0

\* Tokens were posted and taken, one of them by try_wait and one of them by
\* a thread that had been sleeping.
C21_Witness ==
  /\ prog = "semaphore" /\ account.posted >= 2 /\ account.taken >= 2
  /\ \E t \in Threads : res[t] = "true"
  /\ \E t \in Threads :
       pc[t] = "sem_loop" /\ ntokens(word[t]) > 0 /\ ntokens(m_word) = 0

\* The calls of wait that have not returned.
InWait ==
  {t \in Threads : pc[t] \in {"sem_fast", "sem_add", "sem_loop", "sem_futex",
                               "sem_blocked", "sem_reload"}}

\* C22: the threads do not sleep in wait() for ever while there are tokens
\* (again and again no thread sleeps or there is no token), and when
\* the Semaphore was given (at construction and by post) at least as many
\* tokens as calls of wait were made and tokens were taken by try_wait,
\* every call of wait returns and the waiters field is 0 in the end.  (The
\* calls of wait made are those that have taken a token and those of InWait.)
C22_NoLostWakeup ==
  /\ []<>(Sleepers = {} \/ ntokens(m_word) = 0)
  /\ <>[]((account.initial + account.posted
              >= account.taken + Cardinality(InWait)) =>
            (InWait = {} /\ nwaiters(m_word) = 0))

\* Two threads sleep, tokens have been posted and the call of wake is about
\* to be made.
C22_Witness ==
  \E t \in Threads :
    /\ prog = "semaphore" /\ pc[t] = "sem_wake"
    /\ Cardinality(Sleepers) = 2 /\ ntokens(m_word) > 0

\* C23 as stated: m_id is not null if and only if m_mutex is locked.
C23_IdentityIffLocked ==
  prog = "mutex" => ((m_id # NoThread) <=> (m_mutex # NoThread))

\* C23, amended: m_id is not null only while m_mutex is locked, and then it
\* is the id of the thread that has locked it.  (m_mutex is locked with a
\* null m_id while lock is between its two statements, and unlock too.)
C23_IdentityOnlyWhileLocked ==
  prog = "mutex" => (m_id # NoThread => m_mutex = m_id)

\* A thread has locked the mutex and stored its id while another thread
\* waits in lock.
C23_Witness ==
  \E t, u \in Threads :
    /\ prog = "mutex" /\ m_mutex = t /\ m_id = t /\ hold[t] = "mutex"
    /\ pc[u] = "am_lock"

\* C24: is_self_locked() returns true if and only if the calling thread
\* holds the mutex: it is between the return of its lock or successful
\* try_lock and its call of unlock.
C24_SelfLockedIffHeld ==
  [][\A t \in Threads :
       (prog = "mutex" /\ pc[t] = "am_query" /\ pc'[t] = "idle") =>
         (res'[t] = "true" <=> hold[t] = "mutex")]_vars

\* The threads whose for_each has made its callbacks and still has the write
\* lock.
Iterated == {t \in Threads : pc[t] \in {"pf_restore", "pf_wrunlock"}}

\* C25: when for_each has made its callbacks, with the write lock held, it
\* has called back exactly once for every pointer that is live (inserted and
\* not erased) and for no other pointer: no erased pointer and no pointer
\* twice, with other threads inserting and erasing concurrently.
C25_ForEachVisitsLiveOnce ==
  \A t \in Iterated :
    /\ {called[t][k] : k \in 1..Len(called[t])} = {e[2] : e \in Live}
    /\ \A j, k \in 1..Len(called[t]) : called[t][j] = called[t][k] => j = k

\* for_each has called back for a live pointer and skipped an erased one,
\* after the storage has grown and while another thread waits in insert.
C25_Witness ==
  \E t \in Iterated :
    /\ pc[t] = "pf_restore"
    /\ called[t] # <<>>
    /\ free_indices[t] # <<>>
    /\ m_size > initial_size
    /\ \E u \in Threads : pc[u] = "ps_rdlock"

\* The indices that insert has popped and not returned yet.
Inserting == {t \in Threads : pc[t] \in {"ps_store", "ps_rdunlock"}}

\* C26: an index that insert returns, or has popped to return, is the index
\* of no other live entry and of no other running insert, and is inside the
\* storage: two inserts never return the same index unless it was erased in
\* between, with concurrent inserts, erases, a grow and a for_each.
C26_InsertReturnsFreshIndex ==
  prog = "storage" =>
    /\ \A e, f \in Live : e[1] = f[1] => e = f
    /\ \A t \in Inserting :
         /\ index[t] \in 0..(m_size - 1)
         /\ \A e \in Live : e[1] # index[t]
         /\ \A u \in Inserting : index[u] = index[t] => u = t

\* Three entries are live after the storage has grown, an insert has just
\* popped a fourth index and a for_each waits for the write lock.
C26_Witness ==
  /\ prog = "storage"
  /\ Cardinality(Live) >= 3
  /\ m_size > initial_size
  /\ \E t \in Inserting : index[t] > 0
  /\ \E t \in Threads : pc[t] = "pf_wrlock"

\* C31: in AIReadWriteMutex every thread blocked in rd2wryield returns once
\* m_rd2wr_count is 0 again, however many threads yield at the same time and
\* without another call of rd2wrlock.  Stated for a finite run: no thread
\* is left blocked in the wait of rd2wryield, unnotified, while
\* m_rd2wr_count is 0.
C31_YieldersReturn ==
  \A t \in Threads :
    (lock = "RW" /\ pc[t] = "rwy_wait") => m_rd2wr_count # 0

\* The step in which wr2rdlock of thread t returns, after its notification.
Wr2rdlockReturns(t) == lock = "RW" /\ pc[t] = "rwd_notify" /\ pc'[t] = "idle"

\* C32 as claimed: wr2rdlock of AIReadWriteMutex always broadcasts
\* m_condition_no_writer_left: every thread blocked in rdlock leaves its
\* wait when wr2rdlock returns, whether or not writers are waiting.
C32_Wr2rdlockAlwaysBroadcasts ==
  [][\A t \in Threads :
       Wr2rdlockReturns(t) =>
         \A u \in NoWriterLeftWaiters : pc'[u] = "rwr_relock"]_vars

\* C32, amended: wr2rdlock sets m_readers_count to 1 and broadcasts
\* m_condition_no_writer_left exactly when it read m_waiting_writers as 0:
\* then every thread blocked in rdlock leaves its wait, and otherwise none
\* is woken by it.  A woken thread that finds the mutex read-locked takes a
\* read lock next to the holders.
C32_Wr2rdlockBroadcastsUnlessWriterWaits ==
  [][\A t \in Threads :
       /\ (lock = "RW" /\ pc[t] = "rwd_body" /\ pc'[t] = "rwd_notify") =>
            (m_readers_count' = 1 /\ waiting_writer'[t] = m_waiting_writers)
       /\ Wr2rdlockReturns(t) =>
            \A u \in NoWriterLeftWaiters :
              pc'[u] = IF waiting_writer[t] = 0 THEN "rwr_relock"
                       ELSE "rwr_wait"
       /\ (lock = "RW" /\ pc[t] = "rwr_repred" /\ pc'[t] # "rwr_repred"
             /\ m_readers_count >= 1) =>
            (hold'[t] = "read" /\ m_readers_count' = m_readers_count + 1)]_vars

\* wr2rdlock has set m_readers_count to 1 and is about to broadcast to two
\* threads blocked in rdlock; no writer waits.
C32_Witness ==
  \E t \in Threads :
    /\ lock = "RW" /\ pc[t] = "rwd_notify" /\ waiting_writer[t] = 0
    /\ hold[t] = "read" /\ m_readers_count = 1
    /\ Cardinality(NoWriterLeftWaiters) = 2

\* The wrlock calls whose unit of W is in m_state although they do not have
\* the write lock: between do_transition<one_wrlock>() (or
\* do_transition<finalize_wrlock>()) that found the lock taken and the
\* fetch_add of do_transition<failed_wrlock>().
RevertingWriters ==
  {t \in Threads :
     \/ pc[t] = "wl_failed"
     \/ pc[t] \in {"dt_lock_r", "dt_lock_w", "dt_add"} /\ ret[t] = "wl_spin"}

\* The rd2wrlock calls that are being refused: between
\* do_transition<one_rd2wrlock>() that found another converting writer and
\* the fetch_add of do_transition<-one_rd2wrlock>().
RevertingConverters ==
  {t \in Threads :
     pc[t] \in {"dt_lock_r", "dt_lock_w", "dt_add"} /\ ret[t] = "ret_throw"}

\* C33 as claimed: the W field of m_state is at most 1 after every atomic
\* update of the word.
C33_AtMostOneWriter == lock = "SL" => get_counters(m_state)[3] <= 1

\* C33, amended: the W field exceeds 1 only by the wrlock calls that found
\* the lock taken and have not applied failed_wrlock yet; when there is no
\* such call W is at most 1.
C33_AtMostOneWriterBesidesReverting ==
  lock = "SL" =>
    /\ get_counters(m_state)[3] <= 1 + Cardinality(RevertingWriters)
    /\ get_counters(m_state)[3] >= 0

\* Two wrlock calls found a write-locked lock and both units of W are in the
\* word, next to the holder's.
C33_Witness ==
  /\ lock = "SL"
  /\ get_counters(m_state)[3] = 3
  /\ Cardinality(RevertingWriters) = 2
  /\ \E t \in Threads : hold[t] = "write" /\ pc[t] = "idle"

\* C34 as claimed: the C field of m_state is at most 1 after every atomic
\* update of the word, also while a second rd2wrlock is being refused.
C34_AtMostOneConverter == lock = "SL" => get_counters(m_state)[2] <= 1

\* C34, amended: the C field exceeds 1 only by the rd2wrlock calls that are
\* being refused and have not reverted their increment yet; when there is
\* no such call C is at most 1.
C34_AtMostOneConverterBesidesRefused ==
  lock = "SL" =>
    /\ get_counters(m_state)[2] <= 1 + Cardinality(RevertingConverters)
    /\ get_counters(m_state)[2] >= 0

\* One thread converts and the increments of two refused rd2wrlock calls
\* are still in the word.
C34_Witness ==
  /\ lock = "SL"
  /\ get_counters(m_state)[2] = 3
  /\ Cardinality(RevertingConverters) = 2
  /\ \E t \in Threads : pc[t] \in {"cv_spin", "cv_lock", "cv_pred", "cv_wait"}

BeforeFetchAdd(t) == pc[t] \in {"dt_lock_r", "dt_lock_w", "dt_add"}

\* Thread t holds the write lock: from the update of m_state that gave it
\* the lock until the fetch_add of its wrunlock or wr2rdlock.
HasWriteLock(t) ==
  \/ hold[t] = "write"
  \/ pc[t] = "wl_unlock" /\ locked[t]
  \/ pc[t] = "cv_unlock"
  \/ ret[t] = "ret_write" /\ ~BeforeFetchAdd(t)
  \/ BeforeFetchAdd(t) /\ increment[t] \in {one_wrunlock, one_wr2rdlock}

\* Thread t has a conversion of its read lock in progress: from
\* do_transition<one_rd2wrlock>() until it has the write lock or has
\* reverted its attempt.
IsConverting(t) ==
  \/ pc[t] \in {"cv_spin", "cv_lock", "cv_pred", "cv_wait"}
  \/ BeforeFetchAdd(t) /\ ret[t] \in {"ret_write", "ret_throw"}

\* Thread t is inside wrlock and does not have the write lock yet.
InsideWrlock(t) ==
  \/ pc[t] \in {"wl_failed", "wl_spin", "wl_lock", "wl_pred", "wl_wait",
                "wl_finalize"}
  \/ pc[t] = "wl_unlock" /\ ~locked[t]
  \/ ret[t] = "wl_spin"

CountedInV == {t \in Threads : HasWriteLock(t) \/ IsConverting(t) \/ InsideWrlock(t)}

\* C36: after every atomic update m_state is negative if and only if some
\* thread holds the write lock, has a conversion in progress or is inside
\* wrlock as a waiting writer; the negated V field is the number of those
\* threads.
C36_NegativeIffWriter ==
  lock = "SL" =>
    /\ (m_state < 0) <=> (CountedInV # {})
    /\ writer_present(m_state) <=> (CountedInV # {})
    /\ (-get_counters(m_state)[1]) = Cardinality(CountedInV)

\* The word is negative only because of a writer that waits inside wrlock
\* while a reader holds the lock: W and C are 0.
C36_Witness ==
  /\ lock = "SL" /\ m_state < 0
  /\ get_counters(m_state)[3] = 0 /\ get_counters(m_state)[2] = 0
  /\ \E t, u \in Threads :
       pc[t] = "wl_spin" /\ hold[u] = "read" /\ pc[u] = "idle"
  /\ \A t \in Threads : ~HasWriteLock(t) /\ ~IsConverting(t)

\* Thread t has its unit of R in m_state: a read lock that it holds, or an
\* attempt of rdlock that it has not backed out of yet.
CountedInR ==
  {t \in Threads :
     \/ /\ hold[t] = "read"
        /\ ~(BeforeFetchAdd(t) /\ increment[t] = one_wr2rdlock)
        /\ pc[t] # "cv_unlock"
        /\ ~(ret[t] = "ret_write" /\ ~BeforeFetchAdd(t))
     \/ pc[t] = "rb_backout"
     \/ pc[t] = "rb_unlock" /\ locked[t]}

\* The calls of AIReadWriteMutex that have incremented m_rd2wr_count, and
\* those that have incremented m_waiting_writers.
InRd2wrCount == {t \in Threads : pc[t] \in {"rwc_pred", "rwc_wait", "rwc_relock"}}
InWaitingWriters ==
  InRd2wrCount \cup {t \in Threads : pc[t] \in {"rww_pred", "rww_wait", "rww_relock"}}

\* rd2wrlock of thread t has failed with DeadlockAvoided and t has made no
\* call since.
HasThrown(t) == res[t] = "DeadlockAvoided" /\ pc[t] = "idle"

\* C37: when rd2wrlock has failed with DeadlockAvoided its attempt is
\* reverted: the caller holds its read lock and nothing else, and the
\* counters are those of the other threads' calls only.  In
\* AIReadWriteSpinLock the caller's unit of R is in m_state and V and C
\* count the other writers and converters; in AIReadWriteMutex the mutex is
\* read-locked and m_rd2wr_count and m_waiting_writers count the other
\* callers.
C37_FailedConversionReverted ==
  \A t \in Threads :
    HasThrown(t) =>
      /\ hold[t] = "read"
      /\ lock = "SL" =>
           /\ t \in CountedInR /\ t \notin CountedInV
           /\ get_counters(m_state)[4] = Cardinality(CountedInR)
           /\ (-get_counters(m_state)[1]) = Cardinality(CountedInV \ {t})
           /\ get_counters(m_state)[2] =
                Cardinality({u \in Threads \ {t} : IsConverting(u)})
      /\ lock = "RW" =>
           /\ m_readers_count >= 1
           /\ m_state_mutex # t
           /\ m_rd2wr_count = Cardinality(InRd2wrCount \ {t})
           /\ m_waiting_writers = Cardinality(InWaitingWriters \ {t})

\* Two calls of rd2wrlock have failed while a third thread converts, in the
\* spin lock.
C37_Witness ==
  \E t, u, x \in Threads :
    /\ t # u /\ lock = "SL"
    /\ HasThrown(t) /\ HasThrown(u)
    /\ pc[x] \in {"cv_spin", "cv_lock", "cv_pred", "cv_wait"}

\* Every thread has returned from all of its calls of insert, each with an
\* index of its own, and the lock is released.
AllInserted ==
  /\ \A t \in Threads :
       phase[t] = "done" /\ pc[t] = "idle" /\ Cardinality(owned[t]) = InsertCalls(t)
  /\ m_state = 0

\* C38: an insert that finds no free index and whose rd2wrlock fails with
\* DeadlockAvoided releases its read lock before it waits in rd2wryield and
\* retries; however many inserters find the storage exhausted together,
\* every call of insert returns, and a thread that returns from insert
\* holds nothing of m_rwlock.
C38_ExhaustedInsertsReturn ==
  /\ [](prog = "insert" =>
          \A t \in Threads :
            /\ phase[t] = "yield" =>
                 (hold[t] = "none" /\ t \notin CountedInR \cup CountedInV)
            /\ phase[t] = "done" =>
                 /\ hold[t] = "none" /\ pc[t] = "idle"
                 /\ t \notin CountedInR \cup CountedInV)
  /\ <>AllInserted

\* Three inserters found the storage exhausted together: one converts, the
\* rd2wrlock of the other two failed and both wait in rd2wryield.
C38_Witness ==
  /\ prog = "insert"
  /\ \E t, u, x \in Threads :
       /\ t # u
       /\ pc[t] = "y_wait" /\ pc[u] = "y_wait"
       /\ phase[t] = "rdlock" /\ phase[u] = "rdlock"
       /\ IsConverting(x)

\* The step in which the rd2wrlock of thread t finalizes its conversion: the
\* compare-exchange of its wait succeeds.
Finalizes(t) == lock = "SL" /\ pc[t] = "cv_pred" /\ pc'[t] = "cv_unlock"

\* C39 as claimed: the delta that finalizes a successful conversion is
\* +v - c - r + w.
C39_FinalizeDeltaGivesV ==
  [][\A t \in Threads :
       Finalizes(t) =>
         /\ m_state' = m_state + (v - c - r + w)
         /\ successful_rd2wrlock = v - c - r + w]_vars

\* C39, amended: the delta that finalizes a successful conversion is
\* -c - r + w, which leaves V as the attempt made it; rdlock, then the
\* attempt -v + c, then this delta give the state of a successful wrlock,
\* -v + w.
C39_FinalizeDelta ==
  [][\A t \in Threads :
       Finalizes(t) =>
         /\ m_state' = m_state + ((-c) - r + w)
         /\ successful_rd2wrlock = (-c) - r + w
         /\ get_counters(m_state')[1] = get_counters(m_state)[1]
         /\ one_rdlock + one_rd2wrlock + successful_rd2wrlock = one_wrlock
         /\ one_wrlock = (-v) + w /\ one_rd2wrlock = (-v) + c]_vars

\* A conversion has just been finalized with no other thread at the lock:
\* the word is that of a successful wrlock.
C39_Witness ==
  \E t \in Threads :
    /\ lock = "SL" /\ pc[t] = "cv_unlock" /\ locked[t]
    /\ m_state = one_wrlock

\* The labels at which a thread is about to make a call of do_transition
\* that changes the word: the calls with an increment that removes no writer
\* are one step, made at the label of the caller, and the others make their
\* fetch_add at dt_add.
DoTransitionLabels == {"idle", "rb_backout", "rb_retry", "wl_finalize", "dt_add"}

\* Thread t changes the word by a call of do_transition in this step.
ViaDoTransition(t) ==
  /\ lock = "SL" /\ m_state' # m_state
  /\ pc[t] \in DoTransitionLabels /\ Acts(t)

\* The step makes writer_present false.
WriterPresentBecomesFalse ==
  writer_present(m_state) /\ ~writer_present(m_state')

\* The step makes one of the three predicates false that the threads blocked
\* on m_writers_cv wait for.
WritersCvPredicateBecomesFalse ==
  \/ converting_or_actual_writer_present(m_state)
       /\ ~converting_or_actual_writer_present(m_state')
  \/ actual_writer_present(m_state) /\ ~actual_writer_present(m_state')
  \/ converting_writer_present(m_state) /\ ~converting_writer_present(m_state')

\* The increments the spin lock instantiates do_transition with.
DoTransitionIncrements ==
  {one_rdlock, one_rdunlock, failed_rdlock, one_wrlock, failed_wrlock,
   finalize_wrlock, one_rd2wrlock, successful_rd2wrlock, -one_rd2wrlock,
   one_wrunlock, one_wr2rdlock}

\* Adding inc to the word s leaves no counter negative and keeps
\* V <= -(C + W), the condition under which test_removes_writer looks at a
\* pair of a state and an increment.
Applicable(s, inc) ==
  LET n == get_counters(s + inc)
  IN n[2] >= 0 /\ n[3] >= 0 /\ n[4] >= 0 /\ n[1] <= -(n[2] + n[3])

\* For the word s and the increment inc: a predicate that inc turns false is
\* announced by removes_writer, and one of the last three by the inner test
\* of do_transition.
Announced(s, inc) ==
  LET n == s + inc
      writers == \/ converting_or_actual_writer_present(s)
                      /\ ~converting_or_actual_writer_present(n)
                 \/ actual_writer_present(s) /\ ~actual_writer_present(n)
                 \/ converting_writer_present(s) /\ ~converting_writer_present(n)
  IN /\ ((writer_present(s) /\ ~writer_present(n)) \/ writers) =>
          removes_writer(inc)
     /\ writers => \/ removes_converting_or_actual_writer(inc)
                   \/ removes_converting_writer(inc)
                   \/ removes_actual_writer(inc)

\* C40: whenever a call of do_transition changes the word so that
\* writer_present, converting_or_actual_writer_present, actual_writer_present
\* or converting_writer_present turns from true to false, removes_writer of
\* the increment is true and the fetch_add is the one of the branch that
\* holds m_readers_cv_mutex and goes on to the notifications; when one of the
\* last three turns false the increment also passes the inner test and
\* m_writers_cv_mutex is held during the fetch_add.  The branch with the
\* mutexes is only entered with an increment for which removes_writer holds.
\* And for every word the lock reaches and every increment of do_transition
\* that can be added to it, removes_writer and the inner test announce the
\* predicates that the increment turns false.
C40_RemovingDeltaTakesNotifyBranch ==
  /\ [](lock = "SL" =>
          \A inc \in DoTransitionIncrements :
            Applicable(m_state, inc) => Announced(m_state, inc))
  /\ [][\A t \in Threads :
       ViaDoTransition(t) =>
         LET delta == m_state' - m_state
         IN /\ (WriterPresentBecomesFalse \/ WritersCvPredicateBecomesFalse) =>
                 /\ removes_writer(delta)
                 /\ pc[t] = "dt_add" /\ increment[t] = delta
                 /\ m_readers_cv_mutex = t
                 /\ pc'[t] \in {"dt_unlock_w", "dt_unlock_r"}
                 /\ state'[t] = m_state
            /\ WritersCvPredicateBecomesFalse =>
                 /\ \/ removes_converting_or_actual_writer(delta)
                    \/ removes_converting_writer(delta)
                    \/ removes_actual_writer(delta)
                 /\ m_writers_cv_mutex = t
                 /\ pc'[t] = "dt_unlock_w"
            /\ pc[t] = "dt_add" => removes_writer(delta)
    ]_vars

\* A thread whose wrlock found a reader has just taken itself out of the W
\* field, with both mutexes locked: actual_writer_present turned false while
\* the thread is still counted as a waiting writer, so writer_present did not.
C40_Witness ==
  \E t \in Threads :
    /\ lock = "SL" /\ pc[t] = "dt_unlock_w"
    /\ increment[t] = failed_wrlock
    /\ m_readers_cv_mutex = t /\ m_writers_cv_mutex = t
    /\ m_state = state[t] + increment[t]
    /\ actual_writer_present(state[t]) /\ ~actual_writer_present(m_state)
    /\ writer_present(m_state)

\* C8: in AIReadWriteMutex a call of rdlock that starts while
\* m_waiting_writers > 0 does not acquire the read lock (it blocks until
\* the waiting writer has had the write lock), also when the mutex is only
\* read-locked.
C8_RdlockBlocksBehindWaitingWriter ==
  [][\A t \in Threads :
       (pc[t] = "rwr_pred" /\ m_waiting_writers > 0) => hold'[t] # "read"]_vars

\* A wrlock call that has applied its writer delta to m_state and has not
\* taken the write lock yet.
PendingWriter(u) ==
  \/ pc[u] \in {"wl_failed", "wl_spin", "wl_lock", "wl_pred", "wl_wait",
                "wl_finalize"}
  \/ pc[u] = "wl_unlock" /\ ~locked[u]
  \/ /\ pc[u] \in {"dt_lock_r", "dt_lock_w", "dt_add", "dt_unlock_w",
                   "dt_unlock_r", "dt_notify_r", "dt_notify_w"}
     /\ ret[u] = "wl_spin"

\* The step in which a rdlock call takes its read lock: the fetch_add of
\* one_rdlock that finds no writer, or the compare-exchange of 0 to
\* one_rdlock in rdlock_blocked.
TakesReadLock(t) ==
  \/ pc[t] \in {"idle", "rb_retry"} /\ hold[t] = "none" /\ hold'[t] = "read"
  \/ pc[t] = "rb_pred" /\ locked'[t]

\* C9: in AIReadWriteSpinLock, once a wrlock call has applied its writer
\* delta, no rdlock call takes a read lock until that writer has acquired
\* the write lock: a rdlock call that starts after the delta does not return
\* before.
C9_WriterPriority ==
  [][lock = "SL" =>
       \A t \in Threads : TakesReadLock(t) =>
         \A u \in Threads : ~PendingWriter(u)]_vars

\* A reader is blocked in rdlock behind a writer that is still waiting for
\* the readers to leave.
C9_Witness ==
  \E t, u, x \in Threads :
    pc[t] = "rb_wait" /\ pc[u] = "wl_spin" /\ hold[x] = "read"

\* A thread inside rdlock or wrlock that has not taken its lock yet.
InRdlock(t) ==
  pc[t] \in {"rb_backout", "rb_lock", "rb_pred", "rb_wait", "rb_unlock",
             "rb_retry"}

InWrlock(t) == PendingWriter(t) \/ pc[t] = "wl_unlock"

\* C5: in AIReadWriteSpinLock, under fair scheduling and with holders that
\* release, no thread stays blocked forever in rdlock or in wrlock while the
\* lock stays free: every waiting writer eventually acquires the write
\* lock and, the writers being finite in number, every waiting reader the
\* read lock.
C5_NoLostWakeup ==
  \A t \in Threads : []<>~(InRdlock(t) \/ InWrlock(t))

\* A reader and a writer are both blocked in their waits.
C5_Witness ==
  \E t, u \in Threads : pc[t] = "rb_wait" /\ pc[u] = "wl_wait"

=============================================================================
